---------------------------- MODULE Spec2Model ----------------------------
(***************************************************************************)
(* A model of hope.h, the single-header argument parser: parameter sets,   *)
(* the set-level matcher hope_parse_set, the resolver hope_parse and the   *)
(* result arrays they leave behind.                                        *)
(*                                                                         *)
(* C strings are sequences of one-character strings, so that strcmp,       *)
(* strtol and strtod can be computed character by character.  A NULL       *)
(* `const char *' is the value NULL below.  A heap array (set->results) is *)
(* a sequence; the empty sequence is the NULL pointer, because the code    *)
(* only ever holds an array of nresults >= 1 elements or NULL.             *)
(*                                                                         *)
(* Allocation is assumed to succeed (malloc/realloc never return NULL).    *)
(***************************************************************************)
EXTENDS Integers, Sequences, FiniteSets, TLC

(***************************************************************************)
(* Program constants                                                       *)
(***************************************************************************)
HOPE_TYPE_SWITCH == 0
HOPE_TYPE_INTEGER == 1
HOPE_TYPE_DOUBLE == 2
HOPE_TYPE_STRING == 3

HOPE_ARGC_NONE == 0
HOPE_ARGC_MORE == -1
HOPE_ARGC_OPTMORE == -2
HOPE_ARGC_OPT == -3

HOPE_SUCCESS_CODE == 0
\* 0x21, 0x22
HOPE_PARAMADD_ERR_HASCOLLECTOR_CODE == 33
HOPE_PARAMADD_ERR_DUPLICATE_CODE == 34
\* 0x31, 0x32, 0x33
HOPE_PARSE_ERR_PARAM_MISCOUNT_CODE == 49
HOPE_PARSE_ERR_PARAM_UNPARSABLE_CODE == 50
HOPE_PARSE_ERR_PARAM_ARG_MISCOUNT_CODE == 51
\* 0x51
HOPE_SETADD_ERR_DUPLICATE_CODE == 81

\* The NULL `const char *': no C string of the model equals it.
NULL == <<"NULL">>

\* The separator "--" of hope_parse_set.
SEP == <<"-", "-">>

(***************************************************************************)
(* strcmp, strtol, strtod on character sequences                           *)
(***************************************************************************)
\* strcmp(a, b) == 0
StrEq(a, b) == a = b

IsSpace(c) == c \in {" ", "\t", "\n"}

IsDigit(c) == c \in {"0", "1", "2", "3", "4", "5", "6", "7", "8", "9"}

DigitVal(c) ==
    CASE c = "0" -> 0 [] c = "1" -> 1 [] c = "2" -> 2 [] c = "3" -> 3
      [] c = "4" -> 4 [] c = "5" -> 5 [] c = "6" -> 6 [] c = "7" -> 7
      [] c = "8" -> 8 [] c = "9" -> 9

\* Index of the first character of s at or after i that is not white space.
RECURSIVE SkipSpace(_, _)
SkipSpace(s, i) ==
    IF i <= Len(s) /\ IsSpace(s[i]) THEN SkipSpace(s, i + 1) ELSE i

\* Index after an optional sign at i.
SkipSign(s, i) == IF i <= Len(s) /\ s[i] \in {"+", "-"} THEN i + 1 ELSE i

\* The run of digits of s starting at i, as <<value, digits read>>.
RECURSIVE ReadDigits(_, _, _, _)
ReadDigits(s, i, acc, n) ==
    IF i <= Len(s) /\ IsDigit(s[i])
    THEN ReadDigits(s, i + 1, acc * 10 + DigitVal(s[i]), n + 1)
    ELSE <<acc, n>>

\* strtol's result from its sign and its run of digits.
StrtolValue(neg, d) ==
    [ok |-> d[2] > 0, val |-> IF neg THEN 0 - d[1] ELSE d[1]]

\* strtol from b, the first character that is not white space.
StrtolFrom(s, b) ==
    StrtolValue(b <= Len(s) /\ s[b] = "-", ReadDigits(s, SkipSign(s, b), 0, 0))

\* strtol(str, &endptr, 10): ok is endptr # str (some digit was converted);
\* characters after the digits are left unread, as strtol leaves them.
Strtol(s) == StrtolFrom(s, SkipSpace(s, 1))

\* strtod's result: the value is mant / 10^scale.
StrtodValue(neg, ip, fr) ==
    [ok |-> ip[2] + fr[2] > 0,
     val |-> [mant |-> IF neg THEN 0 - fr[1] ELSE fr[1], scale |-> fr[2]]]

\* strtod after the integer digits ip, which start at i0.
StrtodFraction(s, neg, i0, ip) ==
    StrtodValue(neg, ip,
                IF i0 + ip[2] <= Len(s) /\ s[i0 + ip[2]] = "."
                THEN ReadDigits(s, i0 + ip[2] + 1, ip[1], 0)
                ELSE <<ip[1], 0>>)

\* strtod from i0, the first character after the sign.
StrtodDigits(s, neg, i0) == StrtodFraction(s, neg, i0, ReadDigits(s, i0, 0, 0))

\* strtod from b, the first character that is not white space.
StrtodFrom(s, b) == StrtodDigits(s, b <= Len(s) /\ s[b] = "-", SkipSign(s, b))

\* strtod(str, &endptr) on decimal notation: digits, an optional point and
\* fraction digits; ok is endptr # str.
Strtod(s) == StrtodFrom(s, SkipSpace(s, 1))

(***************************************************************************)
(* Records                                                                 *)
(***************************************************************************)
\* hope_init_param: a hope_param_t (the help text plays no part in parsing).
hope_init_param(name, type, nargs) ==
    [name |-> name, type |-> type, nargs |-> nargs]

\* `(hope_result_t){0}': name NULL, type 0, count 0, value all zero bits.
\* The union value is kept as its array (vals) and its bool (sw).
ZeroResult ==
    [name |-> NULL, type |-> HOPE_TYPE_SWITCH, count |-> 0, vals |-> <<>>,
     sw |-> FALSE]

\* A pointer that is neither NULL nor the address of a string.
WILD == <<"WILD">>

\* An array element whose bytes are no hope_result_t anybody wrote.
WildResult == [ZeroResult EXCEPT !.name = WILD]

\* hope_init_set: an empty set.  collector is a sequence of at most one
\* hope_param_t (empty: NULL).  freed holds the elements of the block that
\* free(set->results) last released: malloc may hand the same bytes out again.
hope_init_set(set_name) ==
    [name |-> set_name, params |-> <<>>, collector |-> <<>>,
     results |-> <<>>, nresults |-> 0, freed |-> <<>>]

(***************************************************************************)
(* What realloc(NULL, n) hands out: the elements are not initialised.      *)
(* The three fills are the outcomes an allocator produces: fresh zero      *)
(* pages, the bytes of the block freed last, or anything else.             *)
(***************************************************************************)
Fills == {"zero", "stale", "wild"}

FreshBlock(set, fill) ==
    [k \in 1..set.nresults |->
        IF fill = "stale" /\ k <= Len(set.freed) THEN set.freed[k]
        ELSE IF fill = "zero" THEN ZeroResult
        ELSE WildResult]

(***************************************************************************)
(* Lookups                                                                 *)
(***************************************************************************)
\* hope_search_param: the index of the first parameter named `name', 0 for
\* NULL (not found).  Named parameters never have a NULL name.
RECURSIVE SearchParamFrom(_, _, _)
SearchParamFrom(params, name, i) ==
    IF i > Len(params) THEN 0
    ELSE IF name = NULL
         THEN IF params[i].name = NULL THEN i
              ELSE SearchParamFrom(params, name, i + 1)
         ELSE IF StrEq(params[i].name, name) THEN i
              ELSE SearchParamFrom(params, name, i + 1)

hope_search_param(set, name) == SearchParamFrom(set.params, name, 1)

\* hope_search_result over results[0..nresults-1]: the index of the first
\* result named `name', 0 for NULL (not found), -1 when the search
\* dereferences a pointer that cannot be read (results is NULL with
\* nresults > 0, or strcmp gets a NULL or wild name): the process dies.
RECURSIVE SearchResultFrom(_, _, _, _)
SearchResultFrom(results, nresults, name, i) ==
    IF i > nresults THEN 0
    ELSE IF i > Len(results) THEN -1
    ELSE IF name = NULL
         THEN IF results[i].name = NULL THEN i
              ELSE SearchResultFrom(results, nresults, name, i + 1)
         ELSE IF results[i].name \in {NULL, WILD} THEN -1
         ELSE IF StrEq(results[i].name, name) THEN i
              ELSE SearchResultFrom(results, nresults, name, i + 1)

hope_search_result(results, nresults, name) ==
    SearchResultFrom(results, nresults, name, 1)

(***************************************************************************)
(* Value conversion                                                        *)
(***************************************************************************)
\* A variant of StoreConverted without the test endptr == str: whatever
\* the conversion gave is stored.  C15_BadValueIsUnparsable must tell it
\* from StoreConverted.
StoreConvertedUnchecked(c, result) ==
    [code |-> HOPE_SUCCESS_CODE,
     result |-> [result EXCEPT !.vals = Append(@, c.val), !.count = @ + 1]]

\* A variant of StoreConverted that puts the new value in front of the
\* others.  C17_ValuesInTokenOrder must tell it from StoreConverted.
StoreConvertedInFront(c, result) ==
    IF ~c.ok
    THEN [code |-> HOPE_PARSE_ERR_PARAM_UNPARSABLE_CODE, result |-> result]
    ELSE [code |-> HOPE_SUCCESS_CODE,
          result |-> [result EXCEPT !.vals = <<c.val>> \o @, !.count = @ + 1]]

\* The tail of the integer and double conversions: c is what strtol or
\* strtod made of the string.  [code, result], result the updated
\* hope_result_t.
StoreConverted(c, result) ==
    IF ~c.ok
    THEN [code |-> HOPE_PARSE_ERR_PARAM_UNPARSABLE_CODE, result |-> result]
    ELSE [code |-> HOPE_SUCCESS_CODE,
          result |-> [result EXCEPT !.vals = Append(@, c.val), !.count = @ + 1]]

hope_parse_integer_into_result(str, result) == StoreConverted(Strtol(str), result)

hope_parse_double_into_result(str, result) == StoreConverted(Strtod(str), result)

\* The string is stored as it is (the pointer into args).
hope_parse_string_into_result(str, result) ==
    [code |-> HOPE_SUCCESS_CODE,
     result |-> [result EXCEPT !.vals = Append(@, str), !.count = @ + 1]]

\* The code of a call that does not return: an assertion fails, or memory
\* that cannot be read is read, and the process dies.  No function of
\* hope.h returns this number (the getters return -1 on error).
ABORTED == -2

\* hope_parse_into_result: by the parameter's type; a switch aborts.
hope_parse_into_result(str, param, result) ==
    CASE param.type = HOPE_TYPE_INTEGER ->
            hope_parse_integer_into_result(str, result)
      [] param.type = HOPE_TYPE_DOUBLE ->
            hope_parse_double_into_result(str, result)
      [] param.type = HOPE_TYPE_STRING ->
            hope_parse_string_into_result(str, result)
      [] OTHER -> [code |-> ABORTED, result |-> result]

\* A variant of hope_push_parsed_result that leaves the new element as the
\* block holds it.  C25_SameDeclarationsSameOutcome must tell it from
\* hope_push_parsed_result.
hope_push_result_unwritten(set, result, fill) ==
    [set EXCEPT
        !.results = Append(IF set.results = <<>> THEN FreshBlock(set, fill)
                           ELSE set.results,
                           IF fill = "zero" THEN result ELSE WildResult),
        !.nresults = @ + 1]

\* hope_push_parsed_result: realloc to nresults + 1 elements and write the
\* last one.  From NULL with a stale nresults the elements before it are
\* whatever the new block holds.
hope_push_parsed_result(set, result, fill) ==
    [set EXCEPT
        !.results = IF set.results = <<>>
                    THEN Append(FreshBlock(set, fill), result)
                    ELSE Append(set.results, result),
        !.nresults = @ + 1]

(***************************************************************************)
(* hope_parse_set                                                          *)
(***************************************************************************)
\* A variant of IsSeparator that knows no separator: -- is a token like any
\* other.  C8_SeparatorNeverStored must tell it from IsSeparator.
IsSeparatorNever(tok) == FALSE

\* strcmp(args[i], "--") == 0, the test at the top of the scan and in the
\* value loop.
IsSeparator(tok) == StrEq(tok, SEP)

\* A variant of IsValueBoundary that stops at parameter names only, so that
\* the value loop takes the separator.  C7_SeparatorEndsValues must tell it
\* from IsValueBoundary.
IsValueBoundaryNamesOnly(set, tok) == hope_search_param(set, tok) # 0

\* The value loop's boundary test: the next token is a declared parameter
\* name or the separator.
IsValueBoundary(set, tok) ==
    hope_search_param(set, tok) # 0 \/ IsSeparator(tok)

\* A variant of ArityLimitReached that knows the limit of Optional only.
\* C16_ArityLimitsValues must tell it from ArityLimitReached.
ArityLimitOptOnly(param, result) == param.nargs = HOPE_ARGC_OPT

\* The value loop's exit after a stored value: the arity's limit.
ArityLimitReached(param, result) ==
    param.nargs = HOPE_ARGC_OPT \/ param.nargs = result.count

\* A variant of CollectorSaturated for a collector without limit.
\* C13_SaturatedEndsScan must tell it from CollectorSaturated.
CollectorNeverSaturated(collector, collector_result) == FALSE

\* The collector takes no further token.
CollectorSaturated(collector, collector_result) ==
    \/ collector.nargs = HOPE_ARGC_OPT /\ collector_result.count # 0
    \/ collector.nargs = collector_result.count

\* A variant of RequiresResult that leaves out OneOrMore.
\* C10_AbsentRequiredFails must tell it from RequiresResult.
RequiresResultExactOnly(param) == param.nargs > HOPE_ARGC_NONE

\* A named parameter that must have a result after the scan.
RequiresResult(param) ==
    param.nargs = HOPE_ARGC_MORE \/ param.nargs > HOPE_ARGC_NONE

\* A named parameter that gets an empty result when it has none.
GetsEmptyResult(param) ==
    \/ param.nargs = HOPE_ARGC_OPTMORE
    \/ param.nargs = HOPE_ARGC_OPT
    \/ param.nargs = HOPE_ARGC_NONE

\* A variant of CollectorMiscount that validates OneOrMore only.
\* C14_CollectorValidated must tell it from CollectorMiscount.
CollectorMiscountMoreOnly(collector, collector_result) ==
    collector.nargs = HOPE_ARGC_MORE /\ collector_result.count <= 0

\* The collector's count does not fit its arity.
CollectorMiscount(collector, collector_result) ==
    \/ collector.nargs = HOPE_ARGC_MORE /\ collector_result.count <= 0
    \/ /\ collector.nargs > HOPE_ARGC_NONE
       /\ collector.nargs # collector_result.count

\* The check made for an empty args: the code to fail with, or success.
EmptyArgsCheck(set) ==
    IF Len(set.params) > 0
    THEN IF \E k \in 1..Len(set.params) : set.params[k].nargs >= HOPE_ARGC_MORE
         THEN HOPE_PARSE_ERR_PARAM_MISCOUNT_CODE
         ELSE HOPE_SUCCESS_CODE
    ELSE IF /\ set.collector # <<>>
            /\ set.collector[1].nargs >= HOPE_ARGC_MORE
            /\ set.collector[1].nargs # 0
         THEN HOPE_PARSE_ERR_PARAM_MISCOUNT_CODE
         ELSE HOPE_SUCCESS_CODE

\* The result a named parameter's occurrence starts from: name and type set.
NamedResult(param) ==
    [ZeroResult EXCEPT !.name = param.name, !.type = param.type]

\* The value loop of a named parameter whose name is args[i]: [code, i,
\* result], i the index of the last token taken.
RECURSIVE ConsumeValues(_, _, _, _, _)

\* The value loop after hope_parse_into_result(args[i + 1]) gave r.
ConsumeStored(set, args, i, param, result, r) ==
    IF r.code # HOPE_SUCCESS_CODE
    THEN [code |-> r.code, i |-> i, result |-> result]
    ELSE IF ArityLimitReached(param, r.result)
    THEN [code |-> HOPE_SUCCESS_CODE, i |-> i + 1, result |-> r.result]
    ELSE ConsumeValues(set, args, i + 1, param, r.result)

ConsumeValues(set, args, i, param, result) ==
    IF i + 1 > Len(args)
    THEN [code |-> HOPE_SUCCESS_CODE, i |-> i, result |-> result]
    ELSE IF IsValueBoundary(set, args[i + 1])
    THEN [code |-> HOPE_SUCCESS_CODE, i |-> i, result |-> result]
    ELSE ConsumeStored(set, args, i, param, result,
                       hope_parse_into_result(args[i + 1], param, result))

\* The scan over args from index i: [code, set, coll], coll the
\* collector_result built so far.
RECURSIVE ScanArgs(_, _, _, _, _)

\* The scan after the value loop of a named parameter gave c.
ScanConsumed(set, args, coll, fill, c) ==
    IF c.code # HOPE_SUCCESS_CODE
    THEN [code |-> c.code, set |-> set, coll |-> coll]
    ELSE ScanArgs(hope_push_parsed_result(set, c.result, fill),
                  args, c.i + 1, coll, fill)

\* A variant of ScanParam that stores a switch's result without setting
\* the switch.  C28_SwitchRecordsPresence must tell it from ScanParam.
ScanParamSwitchUnset(set, args, i, coll, fill, param) ==
    IF param.type = HOPE_TYPE_SWITCH
    THEN ScanArgs(hope_push_parsed_result(set, NamedResult(param), fill),
                  args, i + 1, coll, fill)
    ELSE IF param.nargs = HOPE_ARGC_NONE
    THEN ScanArgs(set, args, i + 1, coll, fill)
    ELSE ScanConsumed(set, args, coll, fill,
                      ConsumeValues(set, args, i, param, NamedResult(param)))

\* The scan at args[i], the name of param.
ScanParam(set, args, i, coll, fill, param) ==
    IF param.type = HOPE_TYPE_SWITCH
    THEN ScanArgs(
            hope_push_parsed_result(
                set, [NamedResult(param) EXCEPT !.sw = TRUE], fill),
            args, i + 1, coll, fill)
    ELSE IF param.nargs = HOPE_ARGC_NONE
    THEN ScanArgs(set, args, i + 1, coll, fill)
    ELSE ScanConsumed(set, args, coll, fill,
                      ConsumeValues(set, args, i, param, NamedResult(param)))

\* A variant of ScanCollected that goes on with the collector's result as
\* it was before the token was converted into it.
\* C30_CollectorHoldsTheRest must tell it from ScanCollected.
ScanCollectedDropped(set, args, i, coll, fill, r) ==
    IF r.code # HOPE_SUCCESS_CODE
    THEN [code |-> r.code, set |-> set, coll |-> coll]
    ELSE ScanArgs(set, args, i + 1, coll, fill)

\* The scan after hope_parse_into_result(args[i]) for the collector gave r.
ScanCollected(set, args, i, coll, fill, r) ==
    IF r.code # HOPE_SUCCESS_CODE
    THEN [code |-> r.code, set |-> set, coll |-> coll]
    ELSE ScanArgs(set, args, i + 1, r.result, fill)

\* A variant of ScanUnnamed that passes over a token it cannot place when
\* the set has no collector.  C12_UnmatchedFails must tell it from
\* ScanUnnamed.
ScanUnnamedSkip(set, args, i, coll, fill) ==
    IF set.collector # <<>>
    THEN IF CollectorSaturated(set.collector[1], coll)
         THEN [code |-> HOPE_SUCCESS_CODE, set |-> set, coll |-> coll]
         ELSE ScanCollected(set, args, i, coll, fill,
                            hope_parse_into_result(args[i], set.collector[1], coll))
    ELSE ScanArgs(set, args, i + 1, coll, fill)

\* The scan at args[i], which names no parameter.
ScanUnnamed(set, args, i, coll, fill) ==
    IF set.collector # <<>>
    THEN IF CollectorSaturated(set.collector[1], coll)
         THEN [code |-> HOPE_SUCCESS_CODE, set |-> set, coll |-> coll]
         ELSE ScanCollected(set, args, i, coll, fill,
                            hope_parse_into_result(args[i], set.collector[1], coll))
    ELSE [code |-> HOPE_PARSE_ERR_PARAM_MISCOUNT_CODE, set |-> set, coll |-> coll]

\* The scan at args[i], p the index hope_search_param found for it.
ScanToken(set, args, i, coll, fill, p) ==
    IF p # 0
    THEN ScanParam(set, args, i, coll, fill, set.params[p])
    ELSE ScanUnnamed(set, args, i, coll, fill)

ScanArgs(set, args, i, coll, fill) ==
    IF i > Len(args)
    THEN [code |-> HOPE_SUCCESS_CODE, set |-> set, coll |-> coll]
    ELSE IF IsSeparator(args[i])
    THEN ScanArgs(set, args, i + 1, coll, fill)
    ELSE ScanToken(set, args, i, coll, fill, hope_search_param(set, args[i]))

\* The loop over the named parameters after the scan, from parameter k:
\* [code, set].
RECURSIVE FillMissing(_, _, _)

\* The loop's body for param, found what hope_search_result gave for it.
FillParam(set, k, fill, param, found) ==
    IF found < 0 THEN [code |-> ABORTED, set |-> set]
    ELSE IF RequiresResult(param)
    THEN IF found = 0
         THEN [code |-> HOPE_PARSE_ERR_PARAM_ARG_MISCOUNT_CODE, set |-> set]
         ELSE FillMissing(set, k + 1, fill)
    ELSE IF GetsEmptyResult(param) /\ found = 0
    THEN FillMissing(hope_push_parsed_result(set, NamedResult(param), fill),
                     k + 1, fill)
    ELSE FillMissing(set, k + 1, fill)

FillMissing(set, k, fill) ==
    IF k > Len(set.params)
    THEN [code |-> HOPE_SUCCESS_CODE, set |-> set]
    ELSE FillParam(set, k, fill, set.params[k],
                   hope_search_result(set.results, set.nresults,
                                      set.params[k].name))

\* The collector's validation and push: [code, set].
FinishCollector(set, coll, fill) ==
    IF set.collector = <<>> THEN [code |-> HOPE_SUCCESS_CODE, set |-> set]
    ELSE IF CollectorMiscount(set.collector[1], coll)
    THEN [code |-> HOPE_PARSE_ERR_PARAM_ARG_MISCOUNT_CODE, set |-> set]
    ELSE [code |-> HOPE_SUCCESS_CODE,
          set |-> hope_push_parsed_result(
                      set, [coll EXCEPT !.type = set.collector[1].type], fill)]

\* The defer label: free(set->results), set->results = NULL.  nresults keeps
\* its value.
DeferResults(set) ==
    [set EXCEPT !.results = <<>>,
                !.freed = IF set.results # <<>> THEN set.results ELSE @]

\* How hope_parse_set ends given r, the [code, set] of its last step: an
\* abort as it is, a failure through defer, a success as it is.
ReturnOrDefer(r) ==
    IF r.code = ABORTED \/ r.code = HOPE_SUCCESS_CODE
    THEN [code |-> r.code, set |-> r.set]
    ELSE [code |-> r.code, set |-> DeferResults(r.set)]

\* hope_parse_set after the loop over the named parameters gave f.
AfterFill(f, coll, fill) ==
    IF f.code # HOPE_SUCCESS_CODE THEN ReturnOrDefer(f)
    ELSE ReturnOrDefer(FinishCollector(f.set, coll, fill))

\* hope_parse_set after the scan gave s.
AfterScan(s, fill) ==
    IF s.code # HOPE_SUCCESS_CODE THEN ReturnOrDefer(s)
    ELSE AfterFill(FillMissing(s.set, 1, fill), s.coll, fill)

\* hope_parse_set(set, args): [code, set].  code is ABORTED when the call
\* does not return.
hope_parse_set(set, args, fill) ==
    IF Len(args) = 0 /\ EmptyArgsCheck(set) # HOPE_SUCCESS_CODE
    THEN [code |-> EmptyArgsCheck(set), set |-> DeferResults(set)]
    ELSE AfterScan(ScanArgs(set, args, 1, ZeroResult, fill), fill)

(***************************************************************************)
(* Declarations and the resolver                                           *)
(***************************************************************************)
\* A variant of hope_add_param without the search for the name.
\* C18_DuplicateParamRejected must tell it from hope_add_param.
hope_add_param_unchecked(set, param) ==
    IF param.name = NULL
    THEN IF set.collector # <<>>
         THEN [code |-> HOPE_PARAMADD_ERR_HASCOLLECTOR_CODE, set |-> set]
         ELSE [code |-> HOPE_SUCCESS_CODE,
               set |-> [set EXCEPT !.collector = <<param>>]]
    ELSE [code |-> HOPE_SUCCESS_CODE,
          set |-> [set EXCEPT !.params = Append(@, param)]]

\* A variant of hope_add_param that reports the conflict but has already
\* stored the new collector.  C19_SecondCollectorRejected must tell it from
\* hope_add_param.
hope_add_param_overwriting(set, param) ==
    IF param.name = NULL
    THEN IF set.collector # <<>>
         THEN [code |-> HOPE_PARAMADD_ERR_HASCOLLECTOR_CODE,
               set |-> [set EXCEPT !.collector = <<param>>]]
         ELSE [code |-> HOPE_SUCCESS_CODE,
               set |-> [set EXCEPT !.collector = <<param>>]]
    ELSE IF \E k \in 1..Len(set.params) : StrEq(set.params[k].name, param.name)
         THEN [code |-> HOPE_PARAMADD_ERR_DUPLICATE_CODE, set |-> set]
         ELSE [code |-> HOPE_SUCCESS_CODE,
               set |-> [set EXCEPT !.params = Append(@, param)]]

\* hope_add_param(set, param): [code, set].
hope_add_param(set, param) ==
    IF param.name = NULL
    THEN IF set.collector # <<>>
         THEN [code |-> HOPE_PARAMADD_ERR_HASCOLLECTOR_CODE, set |-> set]
         ELSE [code |-> HOPE_SUCCESS_CODE,
               set |-> [set EXCEPT !.collector = <<param>>]]
    ELSE IF \E k \in 1..Len(set.params) : StrEq(set.params[k].name, param.name)
         THEN [code |-> HOPE_PARAMADD_ERR_DUPLICATE_CODE, set |-> set]
         ELSE [code |-> HOPE_SUCCESS_CODE,
               set |-> [set EXCEPT !.params = Append(@, param)]]

\* The pointer hope->results: NULL, the results array of sets[idx], or the
\* address of an array of sets[idx] that has been freed since.
NullPtr == [ptr |-> "NULL", idx |-> 0]

\* hope_init: a parser without sets and without results.
hope_init ==
    [sets |-> <<>>, results |-> NullPtr, nresults |-> 0, used_set_name |-> NULL]

\* A variant of hope_add_set without the search for the name.
\* C20_DuplicateSetRejected must tell it from hope_add_set.
hope_add_set_unchecked(h, set) ==
    [code |-> HOPE_SUCCESS_CODE, hope |-> [h EXCEPT !.sets = Append(@, set)]]

\* hope_add_set(hope, set): [code, hope].
hope_add_set(h, set) ==
    IF \E k \in 1..Len(h.sets) : StrEq(h.sets[k].name, set.name)
    THEN [code |-> HOPE_SETADD_ERR_DUPLICATE_CODE, hope |-> h]
    ELSE [code |-> HOPE_SUCCESS_CODE, hope |-> [h EXCEPT !.sets = Append(@, set)]]

\* hope->results after hope_parse_set failed on sets[k]: a pointer to the
\* array of sets[k] dangles, the array having been freed at defer.
AfterFree(ptr, k) ==
    IF ptr.ptr = "SET" /\ ptr.idx = k THEN [ptr |-> "FREED", idx |-> k] ELSE ptr

\* The commit of hope_parse: sets[k] matched.
CommitSet(h, k) ==
    [h EXCEPT !.results = IF h.sets[k].results = <<>> THEN NullPtr
                          ELSE [ptr |-> "SET", idx |-> k],
              !.nresults = h.sets[k].nresults,
              !.used_set_name = h.sets[k].name]

\* The loop of hope_parse from set k: [code, hope].
RECURSIVE ParseFrom(_, _, _, _)

\* A variant of ParseTried that gives up when the set it tried does not
\* match.  C2_CommitsFirstMatch must tell it from ParseTried.
ParseTriedFirstOnly(h, args, k, fill, r) ==
    IF r.code = ABORTED
    THEN [code |-> ABORTED, hope |-> [h EXCEPT !.sets[k] = r.set]]
    ELSE IF r.code = HOPE_SUCCESS_CODE
    THEN [code |-> HOPE_SUCCESS_CODE,
          hope |-> CommitSet([h EXCEPT !.sets[k] = r.set], k)]
    ELSE [code |-> HOPE_PARSE_ERR_PARAM_UNPARSABLE_CODE,
          hope |-> [h EXCEPT !.sets[k] = r.set, !.results = AfterFree(@, k)]]

\* The loop's body after hope_parse_set(sets[k]) gave r.
ParseTried(h, args, k, fill, r) ==
    IF r.code = ABORTED
    THEN [code |-> ABORTED, hope |-> [h EXCEPT !.sets[k] = r.set]]
    ELSE IF r.code = HOPE_SUCCESS_CODE
    THEN [code |-> HOPE_SUCCESS_CODE,
          hope |-> CommitSet([h EXCEPT !.sets[k] = r.set], k)]
    ELSE ParseFrom([h EXCEPT !.sets[k] = r.set,
                             !.results = AfterFree(@, k)],
                   args, k + 1, fill)

\* A variant of ParseFrom in which every set after the first is matched
\* against the tokens without the first one.  C29_CommittedAsIfAlone must
\* tell it from ParseFrom.
ParseFromShortened(h, args, k, fill) ==
    IF k > Len(h.sets)
    THEN [code |-> HOPE_PARSE_ERR_PARAM_UNPARSABLE_CODE, hope |-> h]
    ELSE ParseTried(h, args, k, fill,
                    hope_parse_set(h.sets[k],
                                   IF k > 1 /\ args # <<>> THEN Tail(args)
                                   ELSE args,
                                   fill))

ParseFrom(h, args, k, fill) ==
    IF k > Len(h.sets)
    THEN [code |-> HOPE_PARSE_ERR_PARAM_UNPARSABLE_CODE, hope |-> h]
    ELSE ParseTried(h, args, k, fill, hope_parse_set(h.sets[k], args, fill))

\* hope_parse(hope, args): [code, hope].
hope_parse(h, args, fill) == ParseFrom(h, args, 1, fill)

(***************************************************************************)
(* The getters                                                             *)
(***************************************************************************)
HOPE_GET_ERR_NOEXIST_CODE == 65
HOPE_GET_ERR_TYPE_MISMATCH_CODE == 66

\* What a read through a dangling hope->results finds: the freed block as
\* it was, or bytes nobody wrote.
Reads == {"stale", "wild"}

\* The array hope->results points to, as the getters read it.
PointedResults(h, ub) ==
    CASE h.results.ptr = "SET" -> h.sets[h.results.idx].results
      [] h.results.ptr = "FREED" ->
            IF ub = "stale" THEN h.sets[h.results.idx].freed
            ELSE [k \in 1..h.nresults |-> WildResult]
      [] OTHER -> <<>>

\* A caller's pointer variable: NULL, the address of a result's array of
\* values, or whatever the caller put there before the call.
NullValues == [at |-> "NULL", vals |-> <<>>]
CallerValues == [at |-> "CALLER", vals |-> <<>>]

\* result->value.integers / doubles / strings: NULL until the first value
\* is stored.
ValuesPtr(result) ==
    IF result.vals = <<>> THEN NullValues
    ELSE [at |-> "HEAP", vals |-> result.vals]

\* The caller's destination: the bool that hope_get_switch is given the
\* address of (sw), the pointer that the other getters are given the address
\* of (ptr).
CallerDest(b) == [sw |-> b, ptr |-> CallerValues]

\* A getter's outcome: [code, err, dest].  code is what it returns, err the
\* code of the message it prints (0: none), dest the caller's destination
\* after the call.
GetDied(dest) == [code |-> ABORTED, err |-> 0, dest |-> dest]

\* A variant of GetFailed that writes NULL through dest.
\* C22_FailureLeavesDestination must tell it from GetFailed.
GetFailedNulling(err, dest) ==
    [code |-> -1, err |-> err, dest |-> [dest EXCEPT !.ptr = NullValues]]

\* The error exits of the getters: `dest = NULL; return -1;'.  dest is the
\* function's parameter: the assignment changes nothing the caller has.
GetFailed(err, dest) == [code |-> -1, err |-> err, dest |-> dest]

\* hope_get_switch after hope_search_result gave k.
GetSwitchFrom(results, k, dest) ==
    IF k < 0 THEN GetDied(dest)
    ELSE IF k = 0 THEN GetFailed(HOPE_GET_ERR_NOEXIST_CODE, dest)
    ELSE IF results[k].type # HOPE_TYPE_SWITCH
    THEN GetFailed(HOPE_GET_ERR_TYPE_MISMATCH_CODE, dest)
    ELSE [code |-> 1, err |-> 0, dest |-> [dest EXCEPT !.sw = results[k].sw]]

\* hope_get_integer, hope_get_double and hope_get_string after
\* hope_search_result gave k: they differ in the type they ask for.
GetValuesFrom(results, k, type, dest) ==
    IF k < 0 THEN GetDied(dest)
    ELSE IF k = 0 THEN GetFailed(HOPE_GET_ERR_NOEXIST_CODE, dest)
    ELSE IF results[k].type # type
    THEN GetFailed(HOPE_GET_ERR_TYPE_MISMATCH_CODE, dest)
    ELSE [code |-> results[k].count, err |-> 0,
          dest |-> [dest EXCEPT !.ptr = ValuesPtr(results[k])]]

GetValues(results, nresults, name, type, dest) ==
    GetValuesFrom(results, hope_search_result(results, nresults, name),
                  type, dest)

hope_get_switch(h, name, dest, ub) ==
    GetSwitchFrom(PointedResults(h, ub),
                  hope_search_result(PointedResults(h, ub), h.nresults, name),
                  dest)

hope_get_integer(h, name, dest, ub) ==
    GetValues(PointedResults(h, ub), h.nresults, name, HOPE_TYPE_INTEGER, dest)

hope_get_double(h, name, dest, ub) ==
    GetValues(PointedResults(h, ub), h.nresults, name, HOPE_TYPE_DOUBLE, dest)

hope_get_string(h, name, dest, ub) ==
    GetValues(PointedResults(h, ub), h.nresults, name, HOPE_TYPE_STRING, dest)

\* The value a single getter returns for a result that passed its
\* assertions: the switch, or the first value, or the default of the type
\* (0, 0.0, NULL).
ZeroDouble == [mant |-> 0, scale |-> 0]

SingleDefault(type) ==
    CASE type = HOPE_TYPE_INTEGER -> 0
      [] type = HOPE_TYPE_DOUBLE -> ZeroDouble
      [] OTHER -> NULL

SingleValue(result, type) ==
    IF type = HOPE_TYPE_SWITCH THEN result.sw
    ELSE IF result.count # 0 THEN result.vals[1]
    ELSE SingleDefault(type)

\* A variant of SinglePasses without the assertion on the count.
\* C24_SingleGetters must tell it from SinglePasses.
SinglePassesAnyCount(results, k, type) ==
    /\ k > 0
    /\ results[k].type = type

\* The three assertions of a single getter hold: the result was found, has
\* the type asked for and fewer than two values.
SinglePasses(results, k, type) ==
    /\ k > 0
    /\ results[k].type = type
    /\ results[k].count < 2

\* A single getter after hope_search_result gave k: [code, val], code
\* ABORTED when an assertion fails or the search dies, val the one-element
\* sequence of the value returned.
SingleFrom(results, k, type) ==
    IF SinglePasses(results, k, type)
    THEN [code |-> HOPE_SUCCESS_CODE, val |-> <<SingleValue(results[k], type)>>]
    ELSE [code |-> ABORTED, val |-> <<>>]

GetSingle(results, nresults, name, type) ==
    SingleFrom(results, hope_search_result(results, nresults, name), type)

hope_get_single_switch(h, name, ub) ==
    GetSingle(PointedResults(h, ub), h.nresults, name, HOPE_TYPE_SWITCH)

hope_get_single_integer(h, name, ub) ==
    GetSingle(PointedResults(h, ub), h.nresults, name, HOPE_TYPE_INTEGER)

hope_get_single_double(h, name, ub) ==
    GetSingle(PointedResults(h, ub), h.nresults, name, HOPE_TYPE_DOUBLE)

hope_get_single_string(h, name, ub) ==
    GetSingle(PointedResults(h, ub), h.nresults, name, HOPE_TYPE_STRING)

(***************************************************************************)
(* Bounds and the inputs drawn from them                                   *)
(***************************************************************************)
\* Longest args of a hope_parse_set call in SpecSet.
MaxArgs == 3
\* Longest args of a hope_parse call in Spec.
MaxParseArgs == 2
\* hope_parse calls in one behaviour of Spec.
MaxCalls == 2

\* Longest args of the hope_parse_set call in SpecValues.
MaxValueArgs == 4

Tok_h == <<"-", "h">>
Tok_s == <<"-", "s">>
Tok_i == <<"-", "i">>
Tok_1 == <<"1">>
Tok_x == <<"x">>
Tok_2 == <<"2">>
Tok_3 == <<"3">>
HelpName == <<"H", "e", "l", "p">>
DefaultName == <<"D", "e", "f", "a", "u", "l", "t">>

\* All sequences over S of length at most n.
RECURSIVE SeqsUpTo(_, _)
SeqsUpTo(S, n) ==
    IF n = 0 THEN {<<>>}
    ELSE LET shorter == SeqsUpTo(S, n - 1)
         IN  shorter \cup {Append(q, x) : q \in {t \in shorter : Len(t) = n - 1}, x \in S}

Arities ==
    {HOPE_ARGC_NONE, HOPE_ARGC_MORE, HOPE_ARGC_OPTMORE, HOPE_ARGC_OPT, 1, 2}

\* SpecSet: the parameters a set is declared from, and the tokens.
SetParams ==
    {hope_init_param(Tok_h, HOPE_TYPE_SWITCH, HOPE_ARGC_OPT)}
    \cup {hope_init_param(Tok_s, HOPE_TYPE_STRING, n) : n \in Arities}
    \cup {hope_init_param(Tok_s, HOPE_TYPE_INTEGER, n) :
            n \in {HOPE_ARGC_MORE, HOPE_ARGC_OPT, 2}}
    \cup {hope_init_param(Tok_s, HOPE_TYPE_DOUBLE, HOPE_ARGC_OPT)}
    \cup {hope_init_param(SEP, HOPE_TYPE_SWITCH, HOPE_ARGC_OPT)}
    \cup {hope_init_param(NULL, HOPE_TYPE_STRING, n) :
            n \in {HOPE_ARGC_OPTMORE, HOPE_ARGC_OPT}}
    \cup {hope_init_param(NULL, HOPE_TYPE_INTEGER, n) : n \in {HOPE_ARGC_MORE, 2}}

SetTokens == {Tok_h, Tok_s, SEP, Tok_1, Tok_x}

SetArgs == SeqsUpTo(SetTokens, MaxArgs)

\* SpecValues: Integer parameters of several arities and longer args with
\* different numbers.
ValueParams ==
    {hope_init_param(Tok_i, HOPE_TYPE_INTEGER, n) :
        n \in {3, HOPE_ARGC_MORE, HOPE_ARGC_OPT}}
    \cup {hope_init_param(Tok_h, HOPE_TYPE_SWITCH, HOPE_ARGC_OPT),
          hope_init_param(NULL, HOPE_TYPE_INTEGER, HOPE_ARGC_OPTMORE)}

ValueTokens == {Tok_i, Tok_h, SEP, Tok_1, Tok_2, Tok_3}

ValueArgs == SeqsUpTo(ValueTokens, MaxValueArgs)

\* Spec: the parameters, set names and tokens of a parser.
ParserParams ==
    {hope_init_param(Tok_h, HOPE_TYPE_SWITCH, HOPE_ARGC_OPT),
     hope_init_param(Tok_i, HOPE_TYPE_INTEGER, HOPE_ARGC_OPT),
     hope_init_param(Tok_i, HOPE_TYPE_INTEGER, HOPE_ARGC_MORE),
     hope_init_param(NULL, HOPE_TYPE_STRING, HOPE_ARGC_OPTMORE)}

SetNames == {HelpName, DefaultName}

ParserTokens == {Tok_h, Tok_i, Tok_1}

ParserArgs == SeqsUpTo(ParserTokens, MaxParseArgs)

\* Longest args of the hope_parse call in SpecGet.
MaxGetArgs == 3

\* SpecGet: the parameters of the sets, the args, and the names and the
\* destinations the getters are called with.
GetParams ==
    {hope_init_param(Tok_h, HOPE_TYPE_SWITCH, HOPE_ARGC_OPT),
     hope_init_param(Tok_i, HOPE_TYPE_INTEGER, HOPE_ARGC_MORE),
     hope_init_param(Tok_i, HOPE_TYPE_DOUBLE, HOPE_ARGC_OPT),
     hope_init_param(NULL, HOPE_TYPE_STRING, HOPE_ARGC_OPTMORE)}

GetArgs == SeqsUpTo(ParserTokens, MaxGetArgs)

GetNames == {Tok_h, Tok_i, Tok_s, NULL}

\* got before any getter was called.
NoGet ==
    [before |-> CallerDest(FALSE), after |-> CallerDest(FALSE), err |-> 0,
     val |-> <<>>]

\* Longest args of the hope_parse call in SpecScan.
MaxScanArgs == 3

\* SpecScan: the parameters of the sets and the tokens.
ScanParams ==
    {hope_init_param(Tok_h, HOPE_TYPE_SWITCH, HOPE_ARGC_OPT),
     hope_init_param(Tok_i, HOPE_TYPE_INTEGER, HOPE_ARGC_MORE),
     hope_init_param(NULL, HOPE_TYPE_STRING, HOPE_ARGC_OPT)}

ScanTokens == {Tok_h, Tok_i, SEP, Tok_1, Tok_x}

ScanArgsOf == SeqsUpTo(ScanTokens, MaxScanArgs)

\* The set that hope_add_param leaves after the calls for ps[k], ps[k+1], ...
RECURSIVE DeclareParams(_, _, _)
DeclareParams(set, ps, k) ==
    IF k > Len(ps) THEN set
    ELSE DeclareParams(hope_add_param(set, ps[k]).set, ps, k + 1)

\* The sets of that name that hope_init_set and up to n hope_add_param
\* calls make.
ScanSets(set_name, n) ==
    {DeclareParams(hope_init_set(set_name), ps, 1) : ps \in SeqsUpTo(ScanParams, n)}

\* The parsers that hope_init and one or two hope_add_set calls make: a
\* set of up to two parameters, then possibly a set of at most one.
ScanParsers ==
    {hope_add_set(hope_init, s).hope : s \in ScanSets(HelpName, 2)}
    \cup {hope_add_set(hope_add_set(hope_init, s).hope, t).hope :
            s \in ScanSets(HelpName, 2), t \in ScanSets(DefaultName, 1)}

\* scan while no hope_parse call is running.  pc: where the call stands
\* ("idle", "set": at the head of hope_parse's loop, "scan": at the head of
\* the loop over args, "values": at the head of the value loop, "done":
\* returned); k: hope_parse's i; i: hope_parse_set's i, counted from 1;
\* coll, result, p: collector_result, result and the index of param.
\* tried and seen count, for the properties, how often each set was tried
\* and how often each token was the token at the scan position.
NoScan ==
    [pc |-> "idle", k |-> 0, i |-> 0, coll |-> ZeroResult,
     result |-> ZeroResult, p |-> 0, tried |-> <<>>, seen |-> <<>>]

(***************************************************************************)
(* State                                                                   *)
(***************************************************************************)
VARIABLES
    hope,   \* the hope_t
    cur,    \* the caller's hope_set_t under construction (empty: none)
    op,     \* the function called last
    args,   \* the args of the last hope_parse / hope_parse_set call
    ret,    \* what the last call returned (ABORTED: it did not return)
    calls,  \* parse calls made so far
    key,    \* the name the last getter was called with
    got,    \* what the last getter found, wrote and printed
    scan    \* where a hope_parse call that is running stands

vars == <<hope, cur, op, args, ret, calls, key, got, scan>>

\* The process is alive: no call died in an assertion or a bad read.
Alive == ret # ABORTED

\* The fills that can make a difference to a parse of these sets.
FillsFor(sets) ==
    IF \E k \in 1..Len(sets) : sets[k].results = <<>> /\ sets[k].nresults > 0
    THEN Fills
    ELSE {"zero"}

\* The caller's variables after a call returned r (or did not return).
AddParamReturns(r) == cur' = <<r.set>> /\ ret' = r.code

AddSetReturns(r) ==
    /\ hope' = r.hope
    /\ ret' = r.code
    /\ cur' = IF r.code = HOPE_SUCCESS_CODE THEN <<>> ELSE cur

ParseReturns(a, r) == hope' = r.hope /\ ret' = r.code /\ args' = a

ParseSetReturns(a, r) == cur' = <<r.set>> /\ ret' = r.code /\ args' = a

(***************************************************************************)
(* Spec: a parser is declared, then parsed with                            *)
(***************************************************************************)
Init ==
    /\ hope = hope_init
    /\ cur = <<>>
    /\ op = "hope_init"
    /\ args = <<>>
    /\ ret = HOPE_SUCCESS_CODE
    /\ calls = 0
    /\ key = NULL
    /\ got = NoGet
    /\ scan = NoScan

InitSet ==
    /\ Alive /\ calls = 0
    /\ \E n \in SetNames : cur' = <<hope_init_set(n)>>
    /\ op' = "hope_init_set"
    /\ ret' = HOPE_SUCCESS_CODE
    /\ UNCHANGED <<hope, args, calls, key, got, scan>>

AddParam ==
    /\ Alive /\ calls = 0 /\ cur # <<>>
    /\ \E p \in ParserParams : AddParamReturns(hope_add_param(cur[1], p))
    /\ op' = "hope_add_param"
    /\ UNCHANGED <<hope, args, calls, key, got, scan>>

AddSet ==
    /\ Alive /\ calls = 0 /\ cur # <<>>
    /\ AddSetReturns(hope_add_set(hope, cur[1]))
    /\ op' = "hope_add_set"
    /\ UNCHANGED <<args, calls, key, got, scan>>

Parse ==
    /\ Alive /\ cur = <<>> /\ calls < MaxCalls
    /\ \E a \in ParserArgs, fill \in FillsFor(hope.sets) :
          ParseReturns(a, hope_parse(hope, a, fill))
    /\ op' = "hope_parse"
    /\ calls' = calls + 1
    /\ UNCHANGED <<cur, key, got, scan>>

Next == InitSet \/ AddParam \/ AddSet \/ Parse

Spec == Init /\ [][Next]_vars

(***************************************************************************)
(* SpecSet: a set is declared, then hope_parse_set is called on it once,   *)
(* while it is a never-parsed set                                          *)
(***************************************************************************)
SetInit ==
    /\ hope = hope_init
    /\ cur = <<hope_init_set(DefaultName)>>
    /\ op = "hope_init_set"
    /\ args = <<>>
    /\ ret = HOPE_SUCCESS_CODE
    /\ calls = 0
    /\ key = NULL
    /\ got = NoGet
    /\ scan = NoScan

SetAddParam ==
    /\ Alive /\ calls = 0
    /\ \E p \in SetParams : AddParamReturns(hope_add_param(cur[1], p))
    /\ op' = "hope_add_param"
    /\ UNCHANGED <<hope, args, calls, key, got, scan>>

SetParse ==
    /\ Alive /\ calls = 0
    /\ \E a \in SetArgs : ParseSetReturns(a, hope_parse_set(cur[1], a, "zero"))
    /\ op' = "hope_parse_set"
    /\ calls' = 1
    /\ UNCHANGED <<hope, key, got, scan>>

SetNext == SetAddParam \/ SetParse

SpecSet == SetInit /\ [][SetNext]_vars

(***************************************************************************)
(* SpecValues: one hope_parse_set call with up to MaxValueArgs tokens on a *)
(* set of Integer parameters                                               *)
(***************************************************************************)
ValInit ==
    /\ hope = hope_init
    /\ cur = <<hope_init_set(DefaultName)>>
    /\ op = "hope_init_set"
    /\ args = <<>>
    /\ ret = HOPE_SUCCESS_CODE
    /\ calls = 0
    /\ key = NULL
    /\ got = NoGet
    /\ scan = NoScan

ValAddParam ==
    /\ Alive /\ calls = 0
    /\ \E p \in ValueParams : AddParamReturns(hope_add_param(cur[1], p))
    /\ op' = "hope_add_param"
    /\ UNCHANGED <<hope, args, calls, key, got, scan>>

ValParse ==
    /\ Alive /\ calls = 0
    /\ \E a \in ValueArgs : ParseSetReturns(a, hope_parse_set(cur[1], a, "zero"))
    /\ op' = "hope_parse_set"
    /\ calls' = 1
    /\ UNCHANGED <<hope, key, got, scan>>

ValNext == ValAddParam \/ ValParse

SpecValues == ValInit /\ [][ValNext]_vars

(***************************************************************************)
(* SpecGet: a parser of up to two sets is declared, hope_parse is called   *)
(* on it once, then the getters are called                                 *)
(***************************************************************************)
\* The reads that can make a difference to a getter.
ReadsFor(h) == IF h.results.ptr = "FREED" THEN Reads ELSE {"stale"}

\* The caller's variables after a getter called with destination d gave r.
GetReturns(name, d, r) ==
    /\ key' = name
    /\ ret' = r.code
    /\ got' = [before |-> d, after |-> r.dest, err |-> r.err, val |-> <<>>]

\* The caller's variables after a single getter gave r.
SingleReturns(name, r) ==
    /\ key' = name
    /\ ret' = r.code
    /\ got' = [NoGet EXCEPT !.val = r.val]

GetInit ==
    /\ hope = hope_init
    /\ cur = <<>>
    /\ op = "hope_init"
    /\ args = <<>>
    /\ ret = HOPE_SUCCESS_CODE
    /\ calls = 0
    /\ key = NULL
    /\ got = NoGet
    /\ scan = NoScan

GetInitSet ==
    /\ Alive /\ calls = 0 /\ cur = <<>> /\ Len(hope.sets) < 2
    /\ cur' = <<hope_init_set(IF hope.sets = <<>> THEN HelpName
                              ELSE DefaultName)>>
    /\ op' = "hope_init_set"
    /\ ret' = HOPE_SUCCESS_CODE
    /\ UNCHANGED <<hope, args, calls, key, got, scan>>

GetAddParam ==
    /\ Alive /\ calls = 0 /\ cur # <<>>
    /\ \E p \in GetParams : AddParamReturns(hope_add_param(cur[1], p))
    /\ op' = "hope_add_param"
    /\ UNCHANGED <<hope, args, calls, key, got, scan>>

GetAddSet ==
    /\ Alive /\ calls = 0 /\ cur # <<>>
    /\ AddSetReturns(hope_add_set(hope, cur[1]))
    /\ op' = "hope_add_set"
    /\ UNCHANGED <<args, calls, key, got, scan>>

GetParse ==
    /\ Alive /\ calls = 0 /\ cur = <<>>
    /\ \E a \in GetArgs : ParseReturns(a, hope_parse(hope, a, "zero"))
    /\ op' = "hope_parse"
    /\ calls' = 1
    /\ UNCHANGED <<cur, key, got, scan>>

\* One of the four getters with a destination is called.  The getters
\* change nothing of the parser: each call is made on the parser as
\* hope_parse left it.
Get ==
    /\ Alive /\ op = "hope_parse"
    /\ \E name \in GetNames, ub \in ReadsFor(hope) :
          \/ /\ \E b \in BOOLEAN :
                   GetReturns(name, CallerDest(b),
                              hope_get_switch(hope, name, CallerDest(b), ub))
             /\ op' = "hope_get_switch"
          \/ /\ GetReturns(name, CallerDest(FALSE),
                           hope_get_integer(hope, name, CallerDest(FALSE), ub))
             /\ op' = "hope_get_integer"
          \/ /\ GetReturns(name, CallerDest(FALSE),
                           hope_get_double(hope, name, CallerDest(FALSE), ub))
             /\ op' = "hope_get_double"
          \/ /\ GetReturns(name, CallerDest(FALSE),
                           hope_get_string(hope, name, CallerDest(FALSE), ub))
             /\ op' = "hope_get_string"
    /\ UNCHANGED <<hope, cur, args, calls, scan>>

\* One of the four single getters is called.
GetSingleValue ==
    /\ Alive /\ op = "hope_parse"
    /\ \E name \in GetNames, ub \in ReadsFor(hope) :
          \/ /\ SingleReturns(name, hope_get_single_switch(hope, name, ub))
             /\ op' = "hope_get_single_switch"
          \/ /\ SingleReturns(name, hope_get_single_integer(hope, name, ub))
             /\ op' = "hope_get_single_integer"
          \/ /\ SingleReturns(name, hope_get_single_double(hope, name, ub))
             /\ op' = "hope_get_single_double"
          \/ /\ SingleReturns(name, hope_get_single_string(hope, name, ub))
             /\ op' = "hope_get_single_string"
    /\ UNCHANGED <<hope, cur, args, calls, scan>>

GetNext ==
    GetInitSet \/ GetAddParam \/ GetAddSet \/ GetParse \/ Get \/ GetSingleValue

SpecGet == GetInit /\ [][GetNext]_vars

(***************************************************************************)
(* SpecScan: hope_parse on a never-parsed parser, one loop iteration of    *)
(* hope_parse and of hope_parse_set at a time                              *)
(***************************************************************************)
\* The parser, the position and the return value after a step.
Cfg(h, sc, code) == [hope |-> h, scan |-> sc, ret |-> code]

\* hope_parse after hope_parse_set(sets[k]) ended with r, its [code, set]:
\* commit and return, or go on with the next set.
SetEnded(h, sc, r) ==
    IF r.code = ABORTED
    THEN Cfg([h EXCEPT !.sets[sc.k] = r.set], [sc EXCEPT !.pc = "done"], ABORTED)
    ELSE IF r.code = HOPE_SUCCESS_CODE
    THEN Cfg(CommitSet([h EXCEPT !.sets[sc.k] = r.set], sc.k),
             [sc EXCEPT !.pc = "done"], HOPE_SUCCESS_CODE)
    ELSE Cfg([h EXCEPT !.sets[sc.k] = r.set, !.results = AfterFree(@, sc.k)],
             [sc EXCEPT !.pc = "set", !.k = @ + 1], r.code)

\* The scan of sets[k] ended with this code: the rest of hope_parse_set,
\* then hope_parse.
ScanEnded(h, sc, code) ==
    SetEnded(h, sc,
             AfterScan([code |-> code, set |-> h.sets[sc.k], coll |-> sc.coll],
                       "zero"))

\* The head of hope_parse's loop: return when no set is left, otherwise
\* enter hope_parse_set for sets[k].
TrySetStep(h, a, sc, code) ==
    IF sc.k > Len(h.sets)
    THEN Cfg(h, [sc EXCEPT !.pc = "done"], HOPE_PARSE_ERR_PARAM_UNPARSABLE_CODE)
    ELSE IF Len(a) = 0 /\ EmptyArgsCheck(h.sets[sc.k]) # HOPE_SUCCESS_CODE
    THEN SetEnded(h, [sc EXCEPT !.tried[sc.k] = @ + 1],
                  [code |-> EmptyArgsCheck(h.sets[sc.k]),
                   set |-> DeferResults(h.sets[sc.k])])
    ELSE Cfg(h, [sc EXCEPT !.pc = "scan", !.i = 1, !.coll = ZeroResult,
                           !.seen = [j \in 1..Len(a) |-> 0],
                           !.tried[sc.k] = @ + 1],
             code)

\* A variant of ScanOn that stays at the token.  C26_ParseTerminates must
\* tell it from ScanOn.
ScanOnStuck(h, sc, code, set) ==
    Cfg([h EXCEPT !.sets[sc.k] = set], [sc EXCEPT !.pc = "scan"], code)

\* The for statement's i++ : the scan goes on at the next token, with this
\* set.
ScanOn(h, sc, code, set) ==
    Cfg([h EXCEPT !.sets[sc.k] = set],
        [sc EXCEPT !.pc = "scan", !.i = @ + 1], code)

\* The body of the loop over args at args[i], the name of param.
ScanNamedStep(h, sc, code, set, param) ==
    IF param.type = HOPE_TYPE_SWITCH
    THEN ScanOn(h, sc, code,
                hope_push_parsed_result(
                    set, [NamedResult(param) EXCEPT !.sw = TRUE], "zero"))
    ELSE IF param.nargs = HOPE_ARGC_NONE
    THEN ScanOn(h, sc, code, set)
    ELSE Cfg(h, [sc EXCEPT !.pc = "values", !.result = NamedResult(param)],
             code)

\* The body at args[i] after hope_parse_into_result for the collector gave r.
ScanCollectedStep(h, sc, code, set, r) ==
    IF r.code # HOPE_SUCCESS_CODE THEN ScanEnded(h, sc, r.code)
    ELSE ScanOn(h, [sc EXCEPT !.coll = r.result], code, set)

\* The body at args[i], which names no parameter.
ScanUnnamedStep(h, a, sc, code, set) ==
    IF set.collector = <<>>
    THEN ScanEnded(h, sc, HOPE_PARSE_ERR_PARAM_MISCOUNT_CODE)
    ELSE IF CollectorSaturated(set.collector[1], sc.coll)
    THEN ScanEnded(h, sc, HOPE_SUCCESS_CODE)
    ELSE ScanCollectedStep(h, sc, code, set,
                           hope_parse_into_result(a[sc.i], set.collector[1],
                                                  sc.coll))

\* The body of the loop over args at args[i].
ScanBodyStep(h, a, sc, code, set) ==
    IF IsSeparator(a[sc.i]) THEN ScanOn(h, sc, code, set)
    ELSE IF sc.p # 0 THEN ScanNamedStep(h, sc, code, set, set.params[sc.p])
    ELSE ScanUnnamedStep(h, a, sc, code, set)

\* The head of the loop over args: the rest of hope_parse_set at the end of
\* args, otherwise the body at args[i].
ScanStepAt(h, a, sc, code) ==
    IF sc.i > Len(a) THEN ScanEnded(h, sc, HOPE_SUCCESS_CODE)
    ELSE ScanBodyStep(h, a,
                      [sc EXCEPT !.seen[sc.i] = @ + 1,
                                 !.p = hope_search_param(h.sets[sc.k], a[sc.i])],
                      code, h.sets[sc.k])

\* The value loop after hope_parse_into_result(args[i + 1]) gave r.
ValueStoredStep(h, sc, code, set, r) ==
    IF r.code # HOPE_SUCCESS_CODE THEN ScanEnded(h, sc, r.code)
    ELSE IF ArityLimitReached(set.params[sc.p], r.result)
    THEN ScanOn(h, [sc EXCEPT !.i = @ + 1, !.result = ZeroResult], code,
                hope_push_parsed_result(set, r.result, "zero"))
    ELSE Cfg(h, [sc EXCEPT !.i = @ + 1, !.result = r.result], code)

\* The head of the value loop: leave it at the end of args and at a
\* boundary, otherwise convert args[i + 1].
ValueStepAt(h, a, sc, code, set) ==
    IF sc.i + 1 > Len(a) \/ IsValueBoundary(set, a[sc.i + 1])
    THEN ScanOn(h, [sc EXCEPT !.result = ZeroResult], code,
                hope_push_parsed_result(set, sc.result, "zero"))
    ELSE ValueStoredStep(h, [sc EXCEPT !.seen[sc.i + 1] = @ + 1], code, set,
                         hope_parse_into_result(a[sc.i + 1], set.params[sc.p],
                                                sc.result))

\* The variables after a step.
Becomes(c) == hope' = c.hope /\ scan' = c.scan /\ ret' = c.ret

ScanInit ==
    /\ hope \in ScanParsers
    /\ cur = <<>>
    /\ op = "hope_add_set"
    /\ args = <<>>
    /\ ret = HOPE_SUCCESS_CODE
    /\ calls = 0
    /\ key = NULL
    /\ got = NoGet
    /\ scan = NoScan

\* hope_parse is called.
ScanCall ==
    /\ scan.pc = "idle"
    /\ args' \in ScanArgsOf
    /\ scan' = [NoScan EXCEPT !.pc = "set", !.k = 1,
                              !.tried = [j \in 1..Len(hope.sets) |-> 0]]
    /\ op' = "hope_parse"
    /\ calls' = 1
    /\ UNCHANGED <<hope, cur, ret, key, got>>

TrySet ==
    /\ scan.pc = "set"
    /\ Becomes(TrySetStep(hope, args, scan, ret))
    /\ UNCHANGED <<cur, op, args, calls, key, got>>

ScanStep ==
    /\ scan.pc = "scan"
    /\ Becomes(ScanStepAt(hope, args, scan, ret))
    /\ UNCHANGED <<cur, op, args, calls, key, got>>

ValueStep ==
    /\ scan.pc = "values"
    /\ Becomes(ValueStepAt(hope, args, scan, ret, hope.sets[scan.k]))
    /\ UNCHANGED <<cur, op, args, calls, key, got>>

\* The steps of a running call.
ScanRun == TrySet \/ ScanStep \/ ValueStep

ScanNext == ScanCall \/ TrySet \/ ScanStep \/ ValueStep

\* A call that is running goes on running.
SpecScan == ScanInit /\ [][ScanNext]_vars /\ WF_vars(ScanRun)

(***************************************************************************)
(* Vocabulary of the properties                                            *)
(***************************************************************************)
\* The set as hope_init_set and hope_add_param leave it: never parsed.
FreshSet(set) == [set EXCEPT !.results = <<>>, !.nresults = 0, !.freed = <<>>]

\* A parser with the same declarations on which nothing was parsed.
FreshParser(h) ==
    [hope_init EXCEPT !.sets = [k \in 1..Len(h.sets) |-> FreshSet(h.sets[k])]]

\* The results hope->results[0 .. nresults-1] that the accessors search,
\* when the pointer is good.
Committed(h) ==
    IF h.results.ptr = "SET"
    THEN SubSeq(h.sets[h.results.idx].results, 1, h.nresults)
    ELSE <<>>

\* The indices of the entries of results with the given name.
EntriesNamed(results, name) ==
    {k \in 1..Len(results) : results[k].name = name}

\* tok is one of the tokens of a.
Occurs(tok, a) == \E i \in 1..Len(a) : a[i] = tok

\* The named parameters of set with the given name, type and arity.
Declares(set, name, type, nargs) ==
    \E k \in 1..Len(set.params) :
        set.params[k] = hope_init_param(name, type, nargs)

\* A hope_parse_set call has just returned in SpecSet.
SetParsed == op = "hope_parse_set" /\ ret # ABORTED

\* A hope_parse call has just returned.
Parsed == op = "hope_parse" /\ ret # ABORTED

\* The arity asks for at least one value: Exact(n > 0) or OneOrMore.
NeedsValue(nargs) == nargs > 0 \/ nargs = HOPE_ARGC_MORE

(***************************************************************************)
(* Properties of hope_parse_set, checked under SpecSet                     *)
(***************************************************************************)
\* C5: when hope_parse_set fails, the set is left as a never-parsed set:
\* its results are NULL and its nresults is 0.
C5_FailedSetIsFresh ==
    (SetParsed /\ ret # HOPE_SUCCESS_CODE) =>
        cur[1].results = <<>> /\ cur[1].nresults = 0

\* The values stored in the entries of results with the given name.
ValuesOf(results, name) ==
    {results[k].vals : k \in EntriesNamed(results, name)}

\* The call of the separator example: -s is a String parameter with arity
\* OneOrMore and the tokens are -s -- -h.
SeparatorExample ==
    /\ SetParsed
    /\ args = <<Tok_s, SEP, Tok_h>>
    /\ Declares(cur[1], Tok_s, HOPE_TYPE_STRING, HOPE_ARGC_MORE)

\* C7, as the specification states it: on -s -- -h the match succeeds and
\* -h is stored as the one value of -s, also when -h is declared.
C7_TokenAfterSeparatorIsValue ==
    SeparatorExample =>
        /\ ret = HOPE_SUCCESS_CODE
        /\ ValuesOf(cur[1].results, Tok_s) = {<<Tok_h>>}

\* C7, as the code has it: on -s -- -h, when the match succeeds, -s has one
\* entry without values, nothing is stored under -s, and a declared switch
\* -h has one entry, which is true.
C7_SeparatorEndsValues ==
    (SeparatorExample /\ ret = HOPE_SUCCESS_CODE) =>
        /\ ValuesOf(cur[1].results, Tok_s) = {<<>>}
        /\ Cardinality(EntriesNamed(cur[1].results, Tok_s)) = 1
        /\ Declares(cur[1], Tok_h, HOPE_TYPE_SWITCH, HOPE_ARGC_OPT) =>
              /\ Cardinality(EntriesNamed(cur[1].results, Tok_h)) = 1
              /\ \A k \in EntriesNamed(cur[1].results, Tok_h) :
                    cur[1].results[k].sw

\* The separator example with -h declared as a switch, matched.
C7_Witness ==
    /\ SeparatorExample
    /\ ret = HOPE_SUCCESS_CODE
    /\ Declares(cur[1], Tok_h, HOPE_TYPE_SWITCH, HOPE_ARGC_OPT)

RECURSIVE ValuesAfter(_, _, _)
ValuesAfter(set, a, i) ==
    IF i + 1 > Len(a) THEN 0
    ELSE IF a[i + 1] = SEP \/ hope_search_param(set, a[i + 1]) # 0 THEN 0
    ELSE 1 + ValuesAfter(set, a, i + 1)

\* args[i] names a value parameter and is followed by fewer values than its
\* arity asks for: fewer than n for Exact(n), none for OneOrMore.
ShortOccurrence(set, a, i, p) ==
    /\ p # 0
    /\ set.params[p].type # HOPE_TYPE_SWITCH
    /\ \/ set.params[p].nargs > 0 /\ ValuesAfter(set, a, i) < set.params[p].nargs
       \/ set.params[p].nargs = HOPE_ARGC_MORE /\ ValuesAfter(set, a, i) = 0

\* C9: when the name of a named Exact(n) parameter is followed by fewer
\* than n values, or the name of a named OneOrMore parameter by none,
\* hope_parse_set fails with ArityMismatch.
C9_ShortValuesRejected ==
    (/\ SetParsed
     /\ \E i \in 1..Len(args) :
           ShortOccurrence(cur[1], args, i, hope_search_param(cur[1], args[i])))
        => ret = HOPE_PARSE_ERR_PARAM_ARG_MISCOUNT_CODE

\* The named parameter k of the set does not occur in the non-empty args.
Absent(set, a, k) == a # <<>> /\ ~Occurs(set.params[k].name, a)

\* C10, as the specification states it: with a non-empty args, an absent
\* named parameter of arity Exact(n > 0) or OneOrMore makes the call fail
\* with ArityMismatch; an absent one of another arity gets one empty entry.
C10_AbsentRequiredIsArityMismatch ==
    SetParsed =>
        \A k \in 1..Len(cur[1].params) :
            Absent(cur[1], args, k) =>
                IF NeedsValue(cur[1].params[k].nargs)
                THEN ret = HOPE_PARSE_ERR_PARAM_ARG_MISCOUNT_CODE
                ELSE ret = HOPE_SUCCESS_CODE =>
                        ValuesOf(cur[1].results, cur[1].params[k].name) = {<<>>}

\* The code the scan of args ends with on the set as declared.
ScanCode(set, a) == ScanArgs(FreshSet(set), a, 1, ZeroResult, "zero").code

\* C10, as the code has it: on a never-parsed set the absent parameter of
\* arity Exact(n > 0) or OneOrMore makes the call fail, with the error of
\* the scan when the scan fails and with ArityMismatch when it does not; an
\* absent one of another arity has, in a matched call, exactly one entry,
\* not set and without values.
C10_AbsentRequiredFails ==
    SetParsed =>
        \A k \in 1..Len(cur[1].params) :
            Absent(cur[1], args, k) =>
                IF NeedsValue(cur[1].params[k].nargs)
                THEN /\ ret # HOPE_SUCCESS_CODE
                     /\ ret = IF ScanCode(cur[1], args) # HOPE_SUCCESS_CODE
                              THEN ScanCode(cur[1], args)
                              ELSE HOPE_PARSE_ERR_PARAM_ARG_MISCOUNT_CODE
                     /\ ScanCode(cur[1], args) \in
                            {HOPE_SUCCESS_CODE,
                             HOPE_PARSE_ERR_PARAM_MISCOUNT_CODE,
                             HOPE_PARSE_ERR_PARAM_UNPARSABLE_CODE}
                ELSE ret = HOPE_SUCCESS_CODE =>
                        /\ Cardinality(EntriesNamed(cur[1].results,
                                                    cur[1].params[k].name)) = 1
                        /\ \A e \in EntriesNamed(cur[1].results,
                                                 cur[1].params[k].name) :
                              /\ cur[1].results[e].count = 0
                              /\ cur[1].results[e].vals = <<>>
                              /\ ~cur[1].results[e].sw

\* A call that fails with ArityMismatch on an absent OneOrMore parameter
\* after a scan that stored the value of another parameter.
C10_Witness ==
    /\ SetParsed
    /\ ret = HOPE_PARSE_ERR_PARAM_ARG_MISCOUNT_CODE
    /\ ScanCode(cur[1], args) = HOPE_SUCCESS_CODE
    /\ \E k \in 1..Len(cur[1].params) :
          /\ Absent(cur[1], args, k)
          /\ cur[1].params[k].nargs = HOPE_ARGC_MORE
    /\ Occurs(Tok_x, args)

(***************************************************************************)
(* Properties of hope_parse, checked under Spec                            *)
(***************************************************************************)
\* The index of the committed set: the one named hope->used_set_name.
UsedSets(h) == {k \in 1..Len(h.sets) : h.sets[k].name = h.used_set_name}

\* C1: after a successful hope_parse the committed results hold exactly one
\* entry for every named parameter of the committed set, and exactly one
\* unnamed entry when the set has a collector, also when a parameter's name
\* occurs more than once in the tokens.
C1_OneEntryPerParameter ==
    (Parsed /\ ret = HOPE_SUCCESS_CODE) =>
        \A s \in UsedSets(hope) :
            /\ \A k \in 1..Len(hope.sets[s].params) :
                  Cardinality(EntriesNamed(Committed(hope),
                                           hope.sets[s].params[k].name)) = 1
            /\ hope.sets[s].collector # <<>> =>
                  Cardinality(EntriesNamed(Committed(hope), NULL)) = 1

\* The sets that hope_parse_set matches against the tokens a.
Matching(h, a, fill) ==
    {k \in 1..Len(h.sets) :
        hope_parse_set(h.sets[k], a, fill).code = HOPE_SUCCESS_CODE}

\* The step is a hope_parse call that returns.
ParseStep == op' = "hope_parse" /\ calls' = calls + 1 /\ ret' # ABORTED

\* The call of the step, made with the given contents of fresh memory,
\* succeeds exactly when some set matches and commits the first that does.
FirstMatchCommitted(fill) ==
    /\ hope_parse(hope, args', fill) = [code |-> ret', hope |-> hope']
    /\ ret' = HOPE_SUCCESS_CODE <=> Matching(hope, args', fill) # {}
    /\ ret' = HOPE_SUCCESS_CODE =>
          \E k \in Matching(hope, args', fill) :
              /\ \A j \in Matching(hope, args', fill) : k <= j
              /\ hope'.used_set_name = hope.sets[k].name
              /\ hope'.nresults = hope'.sets[k].nresults
              /\ hope'.results = IF hope'.sets[k].results = <<>> THEN NullPtr
                                  ELSE [ptr |-> "SET", idx |-> k]

\* C2: hope_parse succeeds if and only if hope_parse_set matches at least
\* one declared set against the tokens, and it then commits the earliest
\* declared set that matches.
C2_CommitsFirstMatch ==
    [][ParseStep => \E fill \in FillsFor(hope.sets) : FirstMatchCommitted(fill)]_vars

\* A successful call on two sets that would both match: the first one is
\* the committed one.
C2_Witness ==
    /\ Parsed
    /\ calls = 1
    /\ ret = HOPE_SUCCESS_CODE
    /\ Len(hope.sets) = 2
    /\ Matching(FreshParser(hope), args, "zero") = {1, 2}
    /\ hope.used_set_name = hope.sets[1].name
    /\ args # <<>>

\* What the accessors see of a parser: the committed set and its results.
Visible(h) == [set |-> h.used_set_name, results |-> Committed(h)]

\* C3: when a successful hope_parse follows a successful hope_parse on the
\* same parser, the committed results are those the second call's tokens
\* give on a parser on which nothing was parsed before.
C3_SecondParseAsFresh ==
    [][(Parsed /\ ret = HOPE_SUCCESS_CODE /\ ParseStep /\ ret' = HOPE_SUCCESS_CODE)
          => Visible(hope') = Visible(hope_parse(FreshParser(hope), args', "zero").hope)]_vars

\* C4: after a failed hope_parse nothing of an earlier successful call is
\* visible: there is no committed set name and there are no results.
C4_FailedParseHidesResults ==
    (Parsed /\ ret # HOPE_SUCCESS_CODE) =>
        /\ hope.used_set_name = NULL
        /\ hope.nresults = 0
        /\ hope.results = NullPtr

\* C6: the code hope_parse fails with when no set matches is not one of
\* the codes of hope_parse_set: Unparsable, ArityMismatch, TooManyArguments.
C6_NoMatchingSetOwnCode ==
    (Parsed /\ ret # HOPE_SUCCESS_CODE) =>
        ret \notin {HOPE_PARSE_ERR_PARAM_UNPARSABLE_CODE,
                    HOPE_PARSE_ERR_PARAM_ARG_MISCOUNT_CODE,
                    HOPE_PARSE_ERR_PARAM_MISCOUNT_CODE}

(***************************************************************************)
(* Properties of the scan, checked under SpecSet                           *)
(***************************************************************************)
\* Every entry of results with the given name is empty: no value, not set.
EmptyEntries(results, name) ==
    \A k \in EntriesNamed(results, name) :
        /\ results[k].count = 0
        /\ results[k].vals = <<>>
        /\ ~results[k].sw

\* Some named parameter of the set, or its collector, has an arity that
\* asks for at least one value.
SomeNeedsValue(set) ==
    \/ \E k \in 1..Len(set.params) : NeedsValue(set.params[k].nargs)
    \/ set.collector # <<>> /\ NeedsValue(set.collector[1].nargs)

\* C11: with an empty args, hope_parse_set fails exactly when a named
\* parameter or the collector asks for at least one value, and then with
\* ArityMismatch; otherwise it succeeds with one empty entry for every
\* named parameter and for the collector.
C11_EmptyArgsArityMismatch ==
    (SetParsed /\ args = <<>>) =>
        IF SomeNeedsValue(cur[1])
        THEN ret = HOPE_PARSE_ERR_PARAM_ARG_MISCOUNT_CODE
        ELSE /\ ret = HOPE_SUCCESS_CODE
             /\ \A k \in 1..Len(cur[1].params) :
                   /\ Cardinality(EntriesNamed(cur[1].results,
                                               cur[1].params[k].name)) = 1
                   /\ EmptyEntries(cur[1].results, cur[1].params[k].name)
             /\ cur[1].collector # <<>> =>
                   /\ Cardinality(EntriesNamed(cur[1].results, NULL)) = 1
                   /\ EmptyEntries(cur[1].results, NULL)

\* tok is neither the separator nor a declared parameter name.
IsPlain(set, tok) == tok # SEP /\ hope_search_param(set, tok) = 0

\* The index of the last token before a[i] that is the separator or a
\* declared parameter name, 0 when there is none.
RECURSIVE LastBoundary(_, _, _)
LastBoundary(set, a, i) ==
    IF i <= 1 THEN 0
    ELSE IF ~IsPlain(set, a[i - 1]) THEN i - 1
    ELSE LastBoundary(set, a, i - 1)

\* The most values one occurrence of a parameter of this arity takes;
\* len stands for no limit.
Cap(nargs, len) ==
    IF nargs = HOPE_ARGC_OPT THEN 1
    ELSE IF nargs > 0 THEN nargs
    ELSE IF nargs = HOPE_ARGC_NONE THEN 0
    ELSE len

\* The index of the named parameter to which the plain token a[i] is
\* offered as a value, j being LastBoundary(set, a, i); 0 when a[i] is met
\* at the top level of the scan.
ValueParamFrom(set, a, i, j) ==
    IF j = 0 \/ a[j] = SEP THEN 0
    ELSE IF set.params[hope_search_param(set, a[j])].type = HOPE_TYPE_SWITCH THEN 0
    ELSE IF i - j > Cap(set.params[hope_search_param(set, a[j])].nargs, Len(a)) THEN 0
    ELSE hope_search_param(set, a[j])

ValueParam(set, a, i) == ValueParamFrom(set, a, i, LastBoundary(set, a, i))

\* a[i] is a plain token that the scan meets at its top level.
TopLevelPlain(set, a, i) == IsPlain(set, a[i]) /\ ValueParam(set, a, i) = 0

\* a[i] is a plain token offered as a value to a named parameter.
NamedValue(set, a, i) == IsPlain(set, a[i]) /\ ValueParam(set, a, i) # 0

\* The token converts to a value of the type.
Converts(type, tok) ==
    \/ type = HOPE_TYPE_STRING
    \/ type = HOPE_TYPE_INTEGER /\ Strtol(tok).ok
    \/ type = HOPE_TYPE_DOUBLE /\ Strtod(tok).ok

\* a[i] is offered to a named parameter and does not convert to its type.
BadNamedValue(set, a, i) ==
    /\ NamedValue(set, a, i)
    /\ ~Converts(set.params[ValueParam(set, a, i)].type, a[i])

\* The call was made on a set without collector with a plain token at the
\* top level of the scan.
UnmatchedToken ==
    /\ SetParsed
    /\ cur[1].collector = <<>>
    /\ \E i \in 1..Len(args) : TopLevelPlain(cur[1], args, i)

\* C12, as the specification states it: in a set without collector, a
\* token that is not the separator, not a parameter name and not taken as a
\* value makes hope_parse_set fail with TooManyArguments.
C12_UnmatchedIsTooMany ==
    UnmatchedToken => ret = HOPE_PARSE_ERR_PARAM_MISCOUNT_CODE

\* C12, as the code has it: such a token makes the call fail, with
\* Unparsable when a value offered to a named parameter before the first
\* such token does not convert, and with TooManyArguments otherwise.
C12_UnmatchedFails ==
    UnmatchedToken =>
        ret = IF \E i \in 1..Len(args) :
                    /\ BadNamedValue(cur[1], args, i)
                    /\ \A j \in 1..i : ~TopLevelPlain(cur[1], args, j)
              THEN HOPE_PARSE_ERR_PARAM_UNPARSABLE_CODE
              ELSE HOPE_PARSE_ERR_PARAM_MISCOUNT_CODE

\* The token -h offered to a set that declares other parameters, but
\* neither -h nor a collector: TooManyArguments.
C12_Witness ==
    /\ UnmatchedToken
    /\ args = <<Tok_h>>
    /\ Len(cur[1].params) >= 1
    /\ ret = HOPE_PARSE_ERR_PARAM_MISCOUNT_CODE

\* The number of plain tokens before a[i] that the scan meets at its top
\* level: what the collector holds when the scan comes to a[i].
CollectedBefore(set, a, i) ==
    Cardinality({j \in 1..(i - 1) : TopLevelPlain(set, a, j)})

\* The collector's arity has a limit (Optional or Exact(n)) and a[i] is the
\* first top-level plain token after the collector has reached it.
Overflows(set, a, i) ==
    /\ set.collector # <<>>
    /\ set.collector[1].nargs = HOPE_ARGC_OPT \/ set.collector[1].nargs > 0
    /\ TopLevelPlain(set, a, i)
    /\ CollectedBefore(set, a, i) = Cap(set.collector[1].nargs, Len(a))

\* C13, as the specification states it: the token that comes to a
\* saturated collector makes hope_parse_set fail with TooManyArguments.
C13_SaturatedIsTooMany ==
    (SetParsed /\ \E i \in 1..Len(args) : Overflows(cur[1], args, i))
        => ret = HOPE_PARSE_ERR_PARAM_MISCOUNT_CODE

\* C13, as the code has it: the token that comes to a saturated collector
\* ends the scan without an error.  The call returns the code and the
\* results that it returns for the tokens before that token, and the code
\* is never TooManyArguments.
C13_SaturatedEndsScan ==
    SetParsed =>
        \A i \in 1..Len(args) :
            Overflows(cur[1], args, i) =>
                /\ ret # HOPE_PARSE_ERR_PARAM_MISCOUNT_CODE
                /\ hope_parse_set(FreshSet(cur[1]), SubSeq(args, 1, i - 1), "zero")
                      = [code |-> ret, set |-> cur[1]]

\* A matched call in which the switch -h comes after the token that meets
\* the saturated collector: the switch is not seen.
C13_Witness ==
    /\ SetParsed
    /\ ret = HOPE_SUCCESS_CODE
    /\ Len(args) = 3 /\ args[3] = Tok_h
    /\ Overflows(cur[1], args, 2)
    /\ Declares(cur[1], Tok_h, HOPE_TYPE_SWITCH, HOPE_ARGC_OPT)
    /\ \A k \in EntriesNamed(cur[1].results, Tok_h) : ~cur[1].results[k].sw

\* The code of the loop over the named parameters that follows a scan of a
\* on the set as declared.
FillCode(set, a) ==
    FillMissing(ScanArgs(FreshSet(set), a, 1, ZeroResult, "zero").set, 1, "zero").code

\* hope_parse_set on the set as declared comes to the validation of the
\* collector: the empty-args check, the scan and the loop over the named
\* parameters raise no error.
ReachesCollector(set, a) ==
    /\ set.collector # <<>>
    /\ a = <<>> => EmptyArgsCheck(set) = HOPE_SUCCESS_CODE
    /\ ScanCode(set, a) = HOPE_SUCCESS_CODE
    /\ FillCode(set, a) = HOPE_SUCCESS_CODE

\* The number of values the collector holds after the scan of a: the plain
\* tokens at the top level, up to the limit of its arity.
CollectedCount(set, a) ==
    IF CollectedBefore(set, a, Len(a) + 1) < Cap(set.collector[1].nargs, Len(a))
    THEN CollectedBefore(set, a, Len(a) + 1)
    ELSE Cap(set.collector[1].nargs, Len(a))

\* The count does not fit the arity: none for OneOrMore, not n for Exact(n).
ArityUnmet(nargs, count) ==
    \/ nargs = HOPE_ARGC_MORE /\ count = 0
    \/ nargs > 0 /\ count # nargs

\* C14: after the scan the collector is validated against its arity.  With
\* OneOrMore and no collected value, or Exact(n) and another count than n,
\* hope_parse_set fails with ArityMismatch; otherwise it succeeds and the
\* results hold exactly one entry without name, of the collector's type and
\* with the collected count, which a search for the absent name finds.
C14_CollectorValidated ==
    (SetParsed /\ ReachesCollector(cur[1], args)) =>
        IF ArityUnmet(cur[1].collector[1].nargs, CollectedCount(cur[1], args))
        THEN ret = HOPE_PARSE_ERR_PARAM_ARG_MISCOUNT_CODE
        ELSE /\ ret = HOPE_SUCCESS_CODE
             /\ Cardinality(EntriesNamed(cur[1].results, NULL)) = 1
             /\ hope_search_result(cur[1].results, cur[1].nresults, NULL)
                   \in EntriesNamed(cur[1].results, NULL)
             /\ \A k \in EntriesNamed(cur[1].results, NULL) :
                   /\ cur[1].results[k].type = cur[1].collector[1].type
                   /\ cur[1].results[k].count = CollectedCount(cur[1], args)
                   /\ Len(cur[1].results[k].vals) = CollectedCount(cur[1], args)

\* A call that fails with ArityMismatch on a collector of arity Exact(2)
\* that holds one value, all named parameters being satisfied.
C14_Witness ==
    /\ SetParsed
    /\ ReachesCollector(cur[1], args)
    /\ cur[1].collector[1].nargs = 2
    /\ CollectedCount(cur[1], args) = 1
    /\ Len(cur[1].params) >= 1
    /\ ret = HOPE_PARSE_ERR_PARAM_ARG_MISCOUNT_CODE

\* The scan of a comes to the plain token a[i] and offers it as a value:
\* up to a[i] every plain token at the top level found a collector that
\* was not saturated.
Offered(set, a, i) ==
    /\ IsPlain(set, a[i])
    /\ \A j \in 1..i :
          TopLevelPlain(set, a, j) =>
              /\ set.collector # <<>>
              /\ CollectedBefore(set, a, j) < Cap(set.collector[1].nargs, Len(a) + 1)

\* a[i] is offered as a value, to a named parameter or to the collector,
\* and does not convert to the type.
BadOffered(set, a, i) ==
    /\ Offered(set, a, i)
    /\ IF NamedValue(set, a, i)
       THEN ~Converts(set.params[ValueParam(set, a, i)].type, a[i])
       ELSE ~Converts(set.collector[1].type, a[i])

\* C15: when a token offered as a value, to a named parameter or to the
\* collector, does not convert, hope_parse_set fails with Unparsable and
\* keeps no results; and it fails with Unparsable in no other case.
C15_BadValueIsUnparsable ==
    SetParsed =>
        /\ (\E i \in 1..Len(args) : BadOffered(cur[1], args, i)) <=>
              ret = HOPE_PARSE_ERR_PARAM_UNPARSABLE_CODE
        /\ ret = HOPE_PARSE_ERR_PARAM_UNPARSABLE_CODE => cur[1].results = <<>>

\* A call that fails with Unparsable on the second value of an Integer
\* parameter, after the first was stored.
C15_Witness ==
    /\ SetParsed
    /\ ret = HOPE_PARSE_ERR_PARAM_UNPARSABLE_CODE
    /\ args = <<Tok_s, Tok_1, Tok_x>>
    /\ Declares(cur[1], Tok_s, HOPE_TYPE_INTEGER, HOPE_ARGC_MORE)
    /\ BadOffered(cur[1], args, 3)
    /\ cur[1].results = <<>>

\* a with the separator put in after a[k].
InsertSep(a, k) == SubSeq(a, 1, k) \o <<SEP>> \o SubSeq(a, k + 1, Len(a))

\* The arity has a limit: Optional or Exact(n).
Limited(nargs) == nargs = HOPE_ARGC_OPT \/ nargs > 0

\* a[i] names parameter p, which takes values up to a limit, and more plain
\* tokens follow it than the limit.
PastLimit(set, a, i, p) ==
    /\ p # 0
    /\ set.params[p].type # HOPE_TYPE_SWITCH
    /\ Limited(set.params[p].nargs)
    /\ ValuesAfter(set, a, i) > Cap(set.params[p].nargs, Len(a))

\* C16: no entry of a named parameter holds more than one value when the
\* arity is Optional, or more than n when it is Exact(n).  The tokens after
\* the limit are scanned as top-level tokens: the call gives what it gives
\* with the separator put in at the limit.
C16_ArityLimitsValues ==
    SetParsed =>
        /\ \A p \in 1..Len(cur[1].params) :
              (cur[1].params[p].type # HOPE_TYPE_SWITCH
                    /\ Limited(cur[1].params[p].nargs)) =>
                  \A k \in EntriesNamed(cur[1].results, cur[1].params[p].name) :
                      /\ cur[1].results[k].count
                            <= Cap(cur[1].params[p].nargs, Len(args))
                      /\ Len(cur[1].results[k].vals) = cur[1].results[k].count
        /\ \A i \in 1..Len(args) :
              PastLimit(cur[1], args, i, hope_search_param(cur[1], args[i])) =>
                  hope_parse_set(
                      FreshSet(cur[1]),
                      InsertSep(args, i + Cap(cur[1].params[
                                    hope_search_param(cur[1], args[i])].nargs,
                                              Len(args))),
                      "zero") = [code |-> ret, set |-> cur[1]]

\* A matched call in which the Optional String parameter -s takes the first
\* of two plain tokens and the collector the second.
C16_Witness ==
    /\ SetParsed
    /\ ret = HOPE_SUCCESS_CODE
    /\ args = <<Tok_s, Tok_x, Tok_1>>
    /\ Declares(cur[1], Tok_s, HOPE_TYPE_STRING, HOPE_ARGC_OPT)
    /\ cur[1].collector # <<>>
    /\ cur[1].collector[1].type = HOPE_TYPE_STRING
    /\ ValuesOf(cur[1].results, Tok_s) = {<<Tok_x>>}
    /\ ValuesOf(cur[1].results, NULL) = {<<Tok_1>>}

(***************************************************************************)
(* Properties of the recorded values, checked under SpecValues             *)
(***************************************************************************)
\* The k-th smallest element of the set S of numbers.
Nth(S, k) == CHOOSE i \in S : Cardinality({j \in S : j < i}) = k - 1

\* The value the token converts to.
ConvertedValue(type, tok) ==
    IF type = HOPE_TYPE_INTEGER THEN Strtol(tok).val
    ELSE IF type = HOPE_TYPE_DOUBLE THEN Strtod(tok).val
    ELSE tok

\* The smaller of two numbers.
Min2(m, n) == IF m < n THEN m ELSE n

\* The values of the occurrence a[i] of the name of param: the conversions
\* of the tokens after it, in their order, up to the next parameter name
\* or separator and not more than the arity's limit.
ExpectedValues(set, a, i, param) ==
    [k \in 1..Min2(ValuesAfter(set, a, i), Cap(param.nargs, Len(a))) |->
        ConvertedValue(param.type, a[i + k])]

\* The positions of the name in a.
Occurrences(name, a) == {i \in 1..Len(a) : a[i] = name}

\* The entries named like param are one per occurrence of the name in a,
\* in the same order, each with the values expected of its occurrence.
ValuesRecorded(set, a, param) ==
    /\ Cardinality(EntriesNamed(set.results, param.name))
          = Cardinality(Occurrences(param.name, a))
    /\ \A k \in 1..Cardinality(Occurrences(param.name, a)) :
          /\ set.results[Nth(EntriesNamed(set.results, param.name), k)].vals
                = ExpectedValues(set, a, Nth(Occurrences(param.name, a), k), param)
          /\ set.results[Nth(EntriesNamed(set.results, param.name), k)].count
                = Len(ExpectedValues(set, a, Nth(Occurrences(param.name, a), k), param))

\* C17: in a matched call whose scan was not ended by a saturated
\* collector, the values recorded for an occurrence of a named value
\* parameter are exactly the conversions of the tokens that follow its
\* name, in token order, up to the first parameter name or separator or up
\* to the arity's limit.
C17_ValuesInTokenOrder ==
    (/\ SetParsed
     /\ ret = HOPE_SUCCESS_CODE
     /\ \A j \in 1..Len(args) : ~Overflows(cur[1], args, j)) =>
        \A p \in 1..Len(cur[1].params) :
            (/\ cur[1].params[p].type # HOPE_TYPE_SWITCH
             /\ cur[1].params[p].nargs # HOPE_ARGC_NONE
             /\ Occurs(cur[1].params[p].name, args)) =>
                ValuesRecorded(cur[1], args, cur[1].params[p])

\* The example: -i of arity Exact(3) with the tokens -i 1 2 3 has the
\* values 1, 2, 3.
C17_Witness ==
    /\ SetParsed
    /\ ret = HOPE_SUCCESS_CODE
    /\ args = <<Tok_i, Tok_1, Tok_2, Tok_3>>
    /\ Declares(cur[1], Tok_i, HOPE_TYPE_INTEGER, 3)
    /\ ValuesOf(cur[1].results, Tok_i) = {<<1, 2, 3>>}

(***************************************************************************)
(* Properties of the declarations                                          *)
(***************************************************************************)
\* The declared names of a sequence of parameters or sets.
NamesOf(q) == {q[k].name : k \in 1..Len(q)}

\* No two elements of the sequence have the same name.
DistinctNames(q) ==
    \A j, k \in 1..Len(q) : q[j].name = q[k].name => j = k

\* A set is being declared: hope_add_param may be called on cur[1].
Declaring == calls = 0 /\ cur # <<>>

\* C18 (checked under SpecSet): the named parameters of a set have pairwise
\* distinct names.  hope_add_param with a name the set has fails with
\* DuplicateDeclaration and leaves the set as it is; with a new name it
\* succeeds and puts the parameter after the others, which keep their
\* places.
C18_DuplicateParamRejected ==
    Declaring =>
        /\ DistinctNames(cur[1].params)
        /\ \A p \in SetParams :
              p.name # NULL =>
                  hope_add_param(cur[1], p) =
                      IF p.name \in NamesOf(cur[1].params)
                      THEN [code |-> HOPE_PARAMADD_ERR_DUPLICATE_CODE,
                            set |-> cur[1]]
                      ELSE [code |-> HOPE_SUCCESS_CODE,
                            set |-> [cur[1] EXCEPT !.params = Append(@, p)]]

\* hope_add_param has just failed with DuplicateDeclaration on a set of two
\* parameters.
C18_Witness ==
    /\ Declaring
    /\ op = "hope_add_param"
    /\ ret = HOPE_PARAMADD_ERR_DUPLICATE_CODE
    /\ Len(cur[1].params) = 2

\* C19 (checked under SpecSet): a set has at most one collector.
\* hope_add_param with an unnamed parameter fails with CollectorConflict
\* and leaves the set as it is when the set has a collector; otherwise it
\* succeeds, makes the parameter the collector and leaves the named
\* parameters as they are.
C19_SecondCollectorRejected ==
    Declaring =>
        /\ Len(cur[1].collector) <= 1
        /\ \A p \in SetParams :
              p.name = NULL =>
                  hope_add_param(cur[1], p) =
                      IF cur[1].collector # <<>>
                      THEN [code |-> HOPE_PARAMADD_ERR_HASCOLLECTOR_CODE,
                            set |-> cur[1]]
                      ELSE [code |-> HOPE_SUCCESS_CODE,
                            set |-> [cur[1] EXCEPT !.collector = <<p>>]]

\* hope_add_param has just failed with CollectorConflict on a set that has
\* named parameters too.
C19_Witness ==
    /\ Declaring
    /\ op = "hope_add_param"
    /\ ret = HOPE_PARAMADD_ERR_HASCOLLECTOR_CODE
    /\ cur[1].collector # <<>>
    /\ Len(cur[1].params) >= 1

\* C20 (checked under Spec): the sets of a parser have pairwise distinct
\* names.  hope_add_set with a name the parser has fails with
\* DuplicateDeclaration and leaves the parser as it is; with a new name it
\* succeeds and puts the set after the others, the order in which
\* hope_parse tries them.
C20_DuplicateSetRejected ==
    /\ DistinctNames(hope.sets)
    /\ Declaring =>
          hope_add_set(hope, cur[1]) =
              IF cur[1].name \in NamesOf(hope.sets)
              THEN [code |-> HOPE_SETADD_ERR_DUPLICATE_CODE, hope |-> hope]
              ELSE [code |-> HOPE_SUCCESS_CODE,
                    hope |-> [hope EXCEPT !.sets = Append(@, cur[1])]]

\* hope_add_set has just failed with DuplicateDeclaration: the set offered
\* has parameters, the registered set of that name is as it was.
C20_Witness ==
    /\ Declaring
    /\ op = "hope_add_set"
    /\ ret = HOPE_SETADD_ERR_DUPLICATE_CODE
    /\ Len(hope.sets) = 1
    /\ hope.sets[1].name = cur[1].name
    /\ hope.sets[1] # cur[1]

(***************************************************************************)
(* Properties of the getters, checked under SpecGet                        *)
(***************************************************************************)
\* The getters that are given a destination, and the type each asks for.
FallibleGetters ==
    {"hope_get_switch", "hope_get_integer", "hope_get_double",
     "hope_get_string"}

SingleGetters ==
    {"hope_get_single_switch", "hope_get_single_integer",
     "hope_get_single_double", "hope_get_single_string"}

AskedType(getter) ==
    CASE getter \in {"hope_get_switch", "hope_get_single_switch"} ->
            HOPE_TYPE_SWITCH
      [] getter \in {"hope_get_integer", "hope_get_single_integer"} ->
            HOPE_TYPE_INTEGER
      [] getter \in {"hope_get_double", "hope_get_single_double"} ->
            HOPE_TYPE_DOUBLE
      [] OTHER -> HOPE_TYPE_STRING

\* hope_parse succeeded: a set is committed.
HasCommitted == calls = 1 /\ hope.used_set_name # NULL

\* The first committed result with the name the getter was called with
\* (0: there is none).
FirstNamed ==
    IF EntriesNamed(Committed(hope), key) = {} THEN 0
    ELSE CHOOSE k \in EntriesNamed(Committed(hope), key) :
            \A j \in EntriesNamed(Committed(hope), key) : k <= j

\* What a getter with a destination returns and writes for the result r.
Delivered(r) ==
    IF op = "hope_get_switch"
    THEN ret = 1 /\ got.after = [got.before EXCEPT !.sw = r.sw]
    ELSE /\ ret = r.count
         /\ ret = Len(r.vals)
         /\ got.after = [got.before EXCEPT !.ptr = ValuesPtr(r)]

\* C21: after a successful hope_parse a getter with a destination fails
\* with NotFound exactly when no committed result has the name asked for,
\* with TypeMismatch exactly when the result of that name has another type
\* than the one asked for, and otherwise returns the values and their
\* count.
C21_GetterOutcome ==
    (op \in FallibleGetters /\ HasCommitted) =>
        IF FirstNamed = 0
        THEN ret = -1 /\ got.err = HOPE_GET_ERR_NOEXIST_CODE
        ELSE IF Committed(hope)[FirstNamed].type # AskedType(op)
        THEN ret = -1 /\ got.err = HOPE_GET_ERR_TYPE_MISMATCH_CODE
        ELSE got.err = 0 /\ Delivered(Committed(hope)[FirstNamed])

C23_FailureNullsDestination ==
    (op \in FallibleGetters \ {"hope_get_switch"} /\ got.err # 0) =>
        ret = -1 /\ got.after.ptr = NullValues

\* The value a single getter is to return for the result r: the switch,
\* the one value, or the zero of the type when there is no value, nostring
\* being the zero of String.
SoleOrZero(r, nostring) ==
    CASE r.type = HOPE_TYPE_SWITCH -> r.sw
      [] r.type # HOPE_TYPE_SWITCH /\ Len(r.vals) = 1 -> r.vals[1]
      [] r.type = HOPE_TYPE_INTEGER /\ r.vals = <<>> -> 0
      [] r.type = HOPE_TYPE_DOUBLE /\ r.vals = <<>> -> [mant |-> 0, scale |-> 0]
      [] OTHER -> nostring

\* What a single getter called on a committed parser does, nostring being
\* what it returns for a String without a value: it dies when no committed
\* result has the name, when the result has another type or more than one
\* value, and returns the one value or the zero of the type otherwise.
SingleOutcome(nostring) ==
    (op \in SingleGetters /\ HasCommitted) =>
        IF FirstNamed = 0 THEN ret = ABORTED
        ELSE IF Committed(hope)[FirstNamed].type # AskedType(op)
        THEN ret = ABORTED
        ELSE IF Len(Committed(hope)[FirstNamed].vals) > 1 THEN ret = ABORTED
        ELSE /\ ret # ABORTED
             /\ got.val = <<SoleOrZero(Committed(hope)[FirstNamed], nostring)>>

\* C24 as stated: a single getter returns the one value of the parameter
\* asked for, or false / 0 / 0.0 / the empty string when it has no value,
\* and the program dies when the parameter is undeclared, of another type
\* or has more than one value.
C24_SingleGettersEmptyString == SingleOutcome(<<>>)

\* C24 (amended): as stated, but a String without a value gives NULL, not
\* the empty string.
C24_SingleGetters == SingleOutcome(NULL)

\* hope_get_single_string has just returned NULL for the collector, which
\* took no value.
C24_Witness ==
    /\ HasCommitted
    /\ op = "hope_get_single_string"
    /\ key = NULL
    /\ ret # ABORTED
    /\ got.val = <<NULL>>
    /\ Committed(hope)[FirstNamed].type = HOPE_TYPE_STRING

(***************************************************************************)
(* Properties of hope_parse as a function, checked under Spec              *)
(***************************************************************************)
\* The first hope_parse of a parser has just been called.
FirstParse == op = "hope_parse" /\ calls = 1

\* r, the [code, hope] of a hope_parse call, is the outcome the state
\* shows: the same code, the same committed set and the same results.
SameOutcome(r) ==
    /\ r.code = ret
    /\ ret # ABORTED => Visible(r.hope) = Visible(hope)

CommittedSets == {k \in 1..Len(hope.sets) : hope.sets[k].name = hope.used_set_name}

\* What hope_parse_set gives for set k alone, never parsed, on the tokens.
Alone(k) == hope_parse_set(FreshSet(hope.sets[k]), args, "zero")

\* The results that a hope_parse_set call r leaves to be read.
ResultsOf(r) == SubSeq(r.set.results, 1, r.set.nresults)

\* C29: the results committed by hope_parse on a never-parsed parser are
\* those that hope_parse_set produces for the committed set alone on the
\* same, full token list, whatever sets were tried and failed before it;
\* each of those sets fails on the full list alone, too.
C29_CommittedAsIfAlone ==
    (FirstParse /\ ret = HOPE_SUCCESS_CODE) =>
        /\ Cardinality(CommittedSets) = 1
        /\ \A k \in CommittedSets :
              /\ Alone(k).code = HOPE_SUCCESS_CODE
              /\ hope.nresults = Alone(k).set.nresults
              /\ Committed(hope) = ResultsOf(Alone(k))
              /\ \A j \in 1..(k - 1) : Alone(j).code # HOPE_SUCCESS_CODE

\* The second set is committed, with results, after the first set had
\* stored a result and failed.
C29_Witness ==
    /\ FirstParse
    /\ ret = HOPE_SUCCESS_CODE
    /\ Len(hope.sets) = 2
    /\ CommittedSets = {2}
    /\ Committed(hope) # <<>>
    /\ Alone(1).code # HOPE_SUCCESS_CODE
    /\ Alone(1).set.freed # <<>>
    /\ hope.sets[1].nresults > 0

(***************************************************************************)
(* Properties of the loops, checked under SpecScan                         *)
(***************************************************************************)
\* The call that was started has returned (or died).
Returned == scan.pc = "done"

\* What hope_parse as a whole makes of the parser and the args of the
\* state is what the steps have made of them.
StepsAgreeWithParse ==
    Returned => SameOutcome(hope_parse(FreshParser(hope), args, "zero"))

\* A step of the scan of one set: from the head of one of the two loops to
\* the head of one of them, in the same hope_parse_set call.
SameScan ==
    /\ scan.pc \in {"scan", "values"}
    /\ scan'.pc \in {"scan", "values"}
    /\ scan'.k = scan.k

\* The scan position after the step is beyond the one before it, but for
\* the step from a name into its value loop, which keeps it.
ScanAdvances ==
    SameScan =>
        IF scan.pc = "scan" /\ scan'.pc = "values"
        THEN scan'.i = scan.i
        ELSE scan'.i > scan.i

\* No token has been at the scan position twice in one hope_parse_set call,
\* and no set has been tried twice.
AtMostOnce ==
    /\ \A j \in 1..Len(scan.seen) : scan.seen[j] <= 1
    /\ \A j \in 1..Len(scan.tried) : scan.tried[j] <= 1

\* C26: hope_parse terminates: every call returns; the scan position
\* increases with every iteration of the loop over args and of the value
\* loop; each token is at the scan position at most once and each set is
\* tried at most once.
C26_ParseTerminates ==
    /\ [][ScanAdvances]_vars
    /\ []AtMostOnce
    /\ (scan.pc = "set") ~> Returned

\* hope_parse has returned after the first set failed and the second took
\* all three tokens, two of them in the value loop.
C26_Witness ==
    /\ Returned
    /\ ret = HOPE_SUCCESS_CODE
    /\ scan.k = 2
    /\ scan.tried = <<1, 1>>
    /\ scan.seen = <<1, 1, 1>>
    /\ args = <<Tok_i, Tok_1, Tok_1>>

(***************************************************************************)
(* Properties of the error values, checked under SpecSet                   *)
(***************************************************************************)
\* The first token of a that is offered as a value and does not convert.
FirstBad(set, a) ==
    CHOOSE i \in 1..Len(a) :
        /\ BadOffered(set, a, i)
        /\ \A j \in 1..(i - 1) : ~BadOffered(set, a, j)

\* The name of the parameter to which a[i] is offered (NULL: the
\* collector).
Receiver(set, a, i) ==
    IF NamedValue(set, a, i) THEN set.params[ValueParam(set, a, i)].name
    ELSE NULL

\* The parameter at which a parse of a fails as Unparsable.
Offender(set, a) == Receiver(set, a, FirstBad(set, a))

\* The call on the same declarations with the args a returns the same
\* Unparsable error.
SameError(set, a) ==
    hope_parse_set(set, a, "zero").code = HOPE_PARSE_ERR_PARAM_UNPARSABLE_CODE

\* C27: the value that a failed hope_parse_set returns identifies the
\* parameter that caused the failure: two calls on the same declarations
\* that return the same Unparsable error failed at the same parameter.
C27_ErrorIdentifiesParameter ==
    (SetParsed /\ ret = HOPE_PARSE_ERR_PARAM_UNPARSABLE_CODE) =>
        \A a \in SetArgs :
            SameError(FreshSet(cur[1]), a) =>
                Offender(cur[1], a) = Offender(cur[1], args)

(***************************************************************************)
(* Properties of the switches and of the collector, checked under SpecSet  *)
(***************************************************************************)
\* The value read for the switch of that name: that of the first result
\* with the name.
SwitchRead(set, name) ==
    \E k \in EntriesNamed(set.results, name) :
        /\ \A j \in EntriesNamed(set.results, name) : k <= j
        /\ set.results[k].sw

\* No result with that name holds a value.
TakesNoValue(set, name) ==
    \A k \in EntriesNamed(set.results, name) :
        set.results[k].vals = <<>> /\ set.results[k].count = 0

\* The scan gets as far as a[i]: no token before it came to a saturated
\* collector.
ScanReaches(set, a, i) == \A j \in 1..(i - 1) : ~Overflows(set, a, j)

\* The name is a token that the scan handles as a name.
SeenAsName(set, a, name) ==
    /\ name # SEP
    /\ \E i \in 1..Len(a) : a[i] = name /\ ScanReaches(set, a, i)

\* The switches declared in the set.
Switches(set) ==
    {k \in 1..Len(set.params) : set.params[k].type = HOPE_TYPE_SWITCH}

\* C28, as the specification states it: after a successful hope_parse_set
\* on a never-parsed set a declared switch reads true exactly when its name
\* is one of the tokens, wherever it stands, and it takes no value.
C28_SwitchIffNameOccurs ==
    (SetParsed /\ ret = HOPE_SUCCESS_CODE) =>
        \A k \in Switches(cur[1]) :
            /\ SwitchRead(cur[1], cur[1].params[k].name)
                  <=> Occurs(cur[1].params[k].name, args)
            /\ TakesNoValue(cur[1], cur[1].params[k].name)

\* C28, as the code has it: the switch reads true exactly when its name is
\* a token that the scan reaches (no earlier token came to a saturated
\* collector) and the name is not "--"; it takes no value.
C28_SwitchRecordsPresence ==
    (SetParsed /\ ret = HOPE_SUCCESS_CODE) =>
        \A k \in Switches(cur[1]) :
            /\ SwitchRead(cur[1], cur[1].params[k].name)
                  <=> SeenAsName(cur[1], args, cur[1].params[k].name)
            /\ TakesNoValue(cur[1], cur[1].params[k].name)

\* The switch -h stands after "--" and after a value of the collector and
\* reads true; the token after it went to the collector.
C28_Witness ==
    /\ SetParsed
    /\ ret = HOPE_SUCCESS_CODE
    /\ args = <<SEP, Tok_h, Tok_x>>
    /\ Declares(cur[1], Tok_h, HOPE_TYPE_SWITCH, HOPE_ARGC_OPT)
    /\ SwitchRead(cur[1], Tok_h)
    /\ ValuesOf(cur[1].results, NULL) = {<<Tok_x>>}

\* The positions of the plain tokens that the scan meets at its top level:
\* the tokens that are neither "--", nor a declared parameter name, nor
\* taken as a value of a named parameter.
Unclaimed(set, a) == {i \in 1..Len(a) : TopLevelPlain(set, a, i)}

\* Their conversions to the collector's type, in token order.
ConversionsOf(set, a, S) ==
    [k \in 1..Cardinality(S) |->
        ConvertedValue(set.collector[1].type, a[Nth(S, k)])]

\* The number of values stored in the results from the k-th on.
RECURSIVE StoredFrom(_, _)
StoredFrom(results, k) ==
    IF k > Len(results) THEN 0
    ELSE Len(results[k].vals) + StoredFrom(results, k + 1)

\* The plain tokens of a: those that can be stored as a value.
PlainTokens(set, a) == {i \in 1..Len(a) : IsPlain(set, a[i])}

\* No string stored in the results is a declared parameter name.
NoNameStored(set) ==
    \A k \in 1..Len(set.results) :
        set.results[k].type = HOPE_TYPE_STRING =>
            \A v \in 1..Len(set.results[k].vals) :
                set.results[k].vals[v] \notin NamesOf(set.params)

\* C30: after a successful hope_parse_set on a never-parsed set whose
\* collector never met a token while saturated, the collector's values are
\* exactly the conversions, in token order, of the tokens that are neither
\* "--", nor a declared parameter name, nor taken as a value of a named
\* parameter; the results hold as many values as there are tokens that are
\* neither "--" nor a name (none is stored twice), and no stored string is
\* a declared parameter name.
C30_CollectorHoldsTheRest ==
    (/\ SetParsed
     /\ ret = HOPE_SUCCESS_CODE
     /\ \A j \in 1..Len(args) : ~Overflows(cur[1], args, j)) =>
        /\ cur[1].collector # <<>> =>
              /\ Cardinality(EntriesNamed(cur[1].results, NULL)) = 1
              /\ ValuesOf(cur[1].results, NULL)
                    = {ConversionsOf(cur[1], args, Unclaimed(cur[1], args))}
        /\ cur[1].collector = <<>> => Unclaimed(cur[1], args) = {}
        /\ StoredFrom(cur[1].results, 1)
              = Cardinality(PlainTokens(cur[1], args))
        /\ NoNameStored(cur[1])

\* -s takes the one value its arity allows and the token after it goes to
\* the collector.
C30_Witness ==
    /\ SetParsed
    /\ ret = HOPE_SUCCESS_CODE
    /\ args = <<Tok_s, Tok_1, Tok_x>>
    /\ Declares(cur[1], Tok_s, HOPE_TYPE_STRING, HOPE_ARGC_OPT)
    /\ \A j \in 1..Len(args) : ~Overflows(cur[1], args, j)
    /\ ValuesOf(cur[1].results, Tok_s) = {<<Tok_1>>}
    /\ ValuesOf(cur[1].results, NULL) = {<<Tok_x>>}

=============================================================================
